---- MODULE Spec2Model ----
(***************************************************************************)
(* A model of ApiClientGenerator: the legacy generator (src/Generators.py)  *)
(* with its dependency sorter and reference resolver, and the current       *)
(* generator (src/ApiClientGenerator/Generators.py) with its type mappers,  *)
(* method synthesizer and generation pass.                                  *)
(*                                                                         *)
(* Python strings are modelled as sequences of one-character strings, so    *)
(* that regular-expression substitution, substring tests and replace() are  *)
(* computed character by character as the interpreter computes them.       *)
(***************************************************************************)
EXTENDS Naturals, Sequences, FiniteSets, TLC

VARIABLES
    \* ---- sanitation calls (Generator.sanitize_string, sanitize_name)
    sanValue,       \* the string currently held by the caller
    sanLog,         \* the calls made so far: <<[fn, arg, res], ...>>
    \* ---- Generator.PythonGenerator.sort_types (legacy)
    schemas,        \* the schema map handed to sort_types (ordered dict)
    sortPc,         \* "run" | "done" | "KeyError"
    outerIdx,       \* position of the outer for-loop over schemas
    stack,          \* call stack of visit: <<[name, idx], ...>>, top last
    visited,        \* the local set visited
    sorted_types,   \* the local list sorted_types
    entries,        \* how often visit went past its visited-guard, per name
    reached,        \* the names in the order visit went past its guard
    returned,       \* the lists earlier calls of sort_types returned
    sortSteps,      \* statements executed by this call of sort_types
    \* ---- type mapper calls on one Property or Schema object
    mapField,       \* the object, as the calls made so far left it
    mapEnums,       \* the enum registry (self.enums)
    mapLog,         \* the calls made so far: <<[mapper, arg, exc, out], ...>>
    \* ---- generation passes on one parsed document (Typing.OpenAPI)
    genDoc,         \* the document, as the passes made so far left it
    genLog,         \* the passes made so far, see PassResult
    \* ---- calls of Object_Class_Generator.detect_reference (legacy)
    resLog,         \* the calls made so far on the schemas of the schema
                    \* map: <<[type, module, exc, references, ref_code], ...>>
    \* ---- calls of ref_key_transformer on one loaded JSON tree
    data,           \* the tree bound to main's local data
    transformLog,   \* the calls made so far: <<[arg, res, left], ...>>
    \* ---- one run of main
    glob,           \* the files found: <<[name, document], ...>>
    settings,       \* [argument, Python, Javascript]: the argument settings
                    \* and the two dicts of the class Settings
    mainPc,         \* "file" | "python" | "javascript" | "done" | "raised"
    fileIdx,        \* position of the for-loop over the files
    parsed_data,    \* the document of the current file, <<>> before the first
    mainLog         \* the generators asked for:
                    \* <<[generator, file, outcome, generate_calls], ...>>

sanVars  == <<sanValue, sanLog>>
sortVars == <<schemas, sortPc, outerIdx, stack, visited, sorted_types, entries,
             reached, returned, sortSteps>>
mapVars  == <<mapField, mapEnums, mapLog>>
genVars  == <<genDoc, genLog>>
resVars  == <<resLog>>
treeVars == <<data, transformLog>>
mainVars == <<glob, settings, mainPc, fileIdx, parsed_data, mainLog>>
vars     == <<sanVars, sortVars, mapVars, genVars, resVars, treeVars, mainVars>>

\* What an action of one component leaves alone: the other components.
notSan  == <<sortVars, mapVars, genVars, resVars, treeVars, mainVars>>
notSort == <<sanVars, mapVars, genVars, resVars, treeVars, mainVars>>
notMap  == <<sanVars, sortVars, genVars, resVars, treeVars, mainVars>>
notGen  == <<sanVars, sortVars, mapVars, resVars, treeVars, mainVars>>
notRes  == <<sanVars, sortVars, mapVars, genVars, treeVars, mainVars>>
notTree == <<sanVars, sortVars, mapVars, genVars, resVars, mainVars>>
notMain == <<sanVars, sortVars, mapVars, genVars, resVars, treeVars>>

(***************************************************************************)
(* Characters and strings                                                  *)
(***************************************************************************)
Letters ==
    { "a","b","c","d","e","f","g","h","i","j","k","l","m","n","o","p","q","r",
      "s","t","u","v","w","x","y","z",
      "A","B","C","D","E","F","G","H","I","J","K","L","M","N","O","P","Q","R",
      "S","T","U","V","W","X","Y","Z" }

\* A letter outside ASCII: str patterns are Unicode-aware, so \w matches it.
UnicodeLetters == { "é" }

Digits == { "0","1","2","3","4","5","6","7","8","9" }

\* A numeric character outside ASCII that is no decimal digit: \w matches it
\* (str.isalnum) and \d does not.
NumericSymbols == { "²" }

\* re: \w on a str pattern
IsWordChar(c) ==
    c \in Letters \cup UnicodeLetters \cup Digits \cup NumericSymbols \cup {"_"}

\* re: \d
IsDigit(c) == c \in Digits

\* F(v), with v computed once
With(v, F(_)) == CHOOSE y \in { F(x) : x \in {v} } : TRUE

RECURSIVE Concat(_)
\* "".join(parts) for a sequence of strings
Concat(parts) ==
    IF parts = <<>> THEN <<>> ELSE Head(parts) \o Concat(Tail(parts))

RECURSIVE JoinWith(_, _)
\* sep.join(parts)
JoinWith(sep, parts) ==
    IF parts = <<>> THEN <<>>
    ELSE IF Len(parts) = 1 THEN parts[1]
    ELSE parts[1] \o sep \o JoinWith(sep, Tail(parts))

\* s[i-1:].startswith(sub), i counted from 1
StartsWithAt(s, i, sub) ==
    /\ i + Len(sub) - 1 <= Len(s)
    /\ \A k \in 1..Len(sub) : s[i + k - 1] = sub[k]

\* sub in s
Contains(s, sub) == \E i \in 1..(Len(s) + 1) : StartsWithAt(s, i, sub)

RECURSIVE ReplaceFrom(_, _, _, _)
\* s.replace(old, new), scanning from position i (old is never empty here)
ReplaceFrom(s, i, old, new) ==
    IF i > Len(s) THEN <<>>
    ELSE IF StartsWithAt(s, i, old)
         THEN new \o ReplaceFrom(s, i + Len(old), old, new)
         ELSE <<s[i]>> \o ReplaceFrom(s, i + 1, old, new)

Replace(s, old, new) == ReplaceFrom(s, 1, old, new)

\* s.removeprefix(p)
RemovePrefix(s, p) ==
    IF StartsWithAt(s, 1, p) THEN SubSeq(s, Len(p) + 1, Len(s)) ELSE s

RECURSIVE LastSegmentFrom(_, _, _)
\* s.split(sep)[-1] for a one-character sep: what follows the last sep, the
\* whole string when it holds none
LastSegmentFrom(s, sep, i) ==
    IF i = 0 THEN s
    ELSE IF s[i] = sep THEN SubSeq(s, i + 1, Len(s))
    ELSE LastSegmentFrom(s, sep, i - 1)

LastSegment(s, sep) == LastSegmentFrom(s, sep, Len(s))

(***************************************************************************)
(* Sanitation                                                              *)
(***************************************************************************)
\* The buggy variant of the anchor: "^" without the lookahead (?=\d).
AtStartBeforeDigitNoLookahead(value, i) == i = 1

\* The second alternative of the pattern, ^(?=\d): an empty match at the very
\* start of the string when a digit follows.
AtStartBeforeDigit(value, i) == i = 1 /\ IsDigit(value[i])

\* What re.sub(r'\W|^(?=\d)', '_', value) writes for position i: a non-word
\* character is replaced; before a leading digit the empty match is replaced
\* and the digit is then copied; any other character is copied.
SubAt(value, i) ==
    IF ~IsWordChar(value[i]) THEN <<"_">>
    ELSE IF AtStartBeforeDigit(value, i) THEN <<"_", value[i]>>
    ELSE <<value[i]>>

\* Generator.sanitize_string
sanitize_string(value) ==
    Concat([i \in 1..Len(value) |-> SubAt(value, i)])

\* Generator.PythonGenerator.invalid_chars (legacy)
\* The grave accent and the backslash, which a TLA+ string cannot hold as
\* themselves, are the atoms GraveAccent and Backslash.
GraveAccent == "GRAVE"
Backslash == "BACKSLASH"

invalid_chars ==
    << ".", "[", "]", ",", "=", " ", ":", GraveAccent, "-", "/", "<", ">", "(", ")",
       "&", "%", "$", "#", "@", "!", "^", "*", "+", "?", "|", Backslash >>

\* name.replace(char, "_") for a single character char
ReplaceChar(name, char) ==
    [i \in 1..Len(name) |-> IF name[i] = char THEN "_" ELSE name[i]]

RECURSIVE SanitizeNameFrom(_, _)
SanitizeNameFrom(name, k) ==
    IF k > Len(invalid_chars) THEN name
    ELSE SanitizeNameFrom(ReplaceChar(name, invalid_chars[k]), k + 1)

\* Generator.PythonGenerator.sanitize_name (legacy): one replace per
\* invalid character, in list order
sanitize_name(name) == SanitizeNameFrom(name, 1)


(***************************************************************************)
(* Legacy generator: raw documents (dicts as json.load returns them)       *)
(***************************************************************************)
\* "#/components/schemas/"
RefPrefix ==
    << "#", "/", "c", "o", "m", "p", "o", "n", "e", "n", "t", "s", "/",
       "s", "c", "h", "e", "m", "a", "s", "/" >>

RefTo(name) == RefPrefix \o name

\* A dict is a record: keys holds the keys present, the other fields their
\* values (a field whose key is absent holds an empty value that is never
\* read). The properties dict is the sequence of its values in insertion order.
NoItems == [keys |-> {}, ref |-> <<>>]

\* {"$ref": "#/components/schemas/<name>"}
PRef(name) ==
    [keys |-> {"$ref"}, ref |-> RefTo(name), allOf |-> <<>>, type |-> "",
     items |-> NoItems]

\* {"allOf": [{"$ref": ...}]}
PAllOf(name) ==
    [keys |-> {"allOf"}, ref |-> <<>>,
     allOf |-> << [keys |-> {"$ref"}, ref |-> RefTo(name)] >>, type |-> "",
     items |-> NoItems]

\* {"type": "array", "items": {"$ref": ...}}
PItems(name) ==
    [keys |-> {"type", "items"}, ref |-> <<>>, allOf |-> <<>>, type |-> "array",
     items |-> [keys |-> {"$ref"}, ref |-> RefTo(name)]]

\* {"type": "object", "properties": {...}}
SObject(props) ==
    [keys |-> {"type", "properties"}, type |-> "object", properties |-> props]

\* {"type": "string"}
SString == [keys |-> {"type"}, type |-> "string", properties |-> <<>>]

\* {"enum": [...]}: an enum schema that states no "type"
SEnum == [keys |-> {"enum"}, type |-> "", properties |-> <<>>]

\* type_name in schemas
HasSchema(doc, type_name) == \E i \in 1..Len(doc) : doc[i].name = type_name

\* schemas[type_name], for a key that is present
SchemaOf(doc, type_name) ==
    doc[CHOOSE i \in 1..Len(doc) : doc[i].name = type_name].schema

(***************************************************************************)
(* Reference resolver: Object_Class_Generator.detect_reference             *)
(***************************************************************************)
\* module = None, as start() leaves it when it is called without a name
NoModule == << "None" >>

\* The three-way test that makes the resolver skip a reference.
SkipReference(ref, acc, module, resident) ==
    \/ ref \in acc.vis
    \/ ref = LastSegment(module, ".")
    \/ ref = resident

\* if ref not in references: references.append(ref); visited_references.add(ref)
AddReference(ref, acc) ==
    IF \E k \in 1..Len(acc.refs) : acc.refs[k] = ref THEN acc
    ELSE [acc EXCEPT !.refs = Append(acc.refs, ref), !.vis = acc.vis \cup {ref}]

\* One candidate reference: skipped (continue) or added. Once the test has
\* raised, nothing more is considered: with module None, module.split raises
\* AttributeError as soon as the test gets past "ref in visited_references".
Consider(node, acc, module, resident) ==
    IF acc.exc # "none" THEN acc
    ELSE IF "$ref" \notin node.keys THEN acc
    ELSE LET ref == LastSegment(node.ref, "/")
         IN  IF ref \notin acc.vis /\ module = NoModule
             THEN [acc EXCEPT !.exc = "AttributeError"]
             ELSE IF SkipReference(ref, acc, module, resident) THEN acc
             ELSE AddReference(ref, acc)

RECURSIVE ConsiderAll(_, _, _, _, _)
\* for sub_prop in prop["allOf"]: ...
ConsiderAll(subs, k, acc, module, resident) ==
    IF k > Len(subs) THEN acc
    ELSE ConsiderAll(subs, k + 1, Consider(subs[k], acc, module, resident),
                     module, resident)

\* The body of the loop over the properties: the if / elif / elif chain.
ReferencesOfProp(prop, acc, module, resident) ==
    IF "$ref" \in prop.keys THEN Consider(prop, acc, module, resident)
    ELSE IF "allOf" \in prop.keys
         THEN ConsiderAll(prop.allOf, 1, acc, module, resident)
    ELSE IF "type" \in prop.keys /\ prop.type = "array" /\ "items" \in prop.keys
         THEN Consider(prop.items, acc, module, resident)
    ELSE acc

RECURSIVE ReferencesFrom(_, _, _, _, _)
ReferencesFrom(props, k, acc, module, resident) ==
    IF k > Len(props) THEN acc
    ELSE ReferencesFrom(props, k + 1,
                        ReferencesOfProp(props[k], acc, module, resident),
                        module, resident)

\* The local list references that detect_reference builds for a schema (the
\* empty list for a schema without "properties", where it returns at once).
References(schema, module, visited_references, resident) ==
    IF "properties" \notin schema.keys THEN <<>>
    ELSE ReferencesFrom(schema.properties, 1,
                        [refs |-> <<>>, vis |-> visited_references, exc |-> "none"],
                        module, resident).refs

\* Object_Class_Generator.detect_reference with visited_references left out
\* (a fresh set). Returns [exc, references, ref_code]: the exception raised
\* ("none" when it returned), the local list references, and the value
\* returned: "None" without properties or references, else the empty string.
detect_reference(schema, module, resident) ==
    IF "properties" \notin schema.keys
    THEN [exc |-> "none", references |-> <<>>, ref_code |-> "None"]
    ELSE With(ReferencesFrom(schema.properties, 1,
                             [refs |-> <<>>, vis |-> {}, exc |-> "none"],
                             module, resident),
              LAMBDA acc :
                  [exc |-> acc.exc, references |-> acc.refs,
                   ref_code |-> IF acc.refs = <<>> THEN "None" ELSE ""])

(***************************************************************************)
(* Dependency sorter: Generator.PythonGenerator.sort_types                 *)
(***************************************************************************)
\* The buggy variant of the guard: visit without its visited check.
AlreadyVisitedNever(seen, type_name) == FALSE

\* if type_name in visited: return
AlreadyVisited(seen, type_name) == type_name \in seen

WalkedPropertiesNone(schema) == <<>>

\* The properties visit walks: those of an object schema with "properties".
WalkedProperties(schema) ==
    IF schema.type = "object" /\ "properties" \in schema.keys
    THEN schema.properties ELSE <<>>

\* A call visit(type_name) made with call stack stk, up to the start of its
\* loop: the guard, visited.add, the two subscripts that may raise KeyError.
Visit(type_name, stk) ==
    IF AlreadyVisited(visited, type_name)
    THEN /\ stack' = stk
         /\ UNCHANGED <<visited, entries, reached, sortPc>>
    ELSE /\ visited' = visited \cup {type_name}
         /\ entries' = [entries EXCEPT ![type_name] = @ + 1]
         /\ reached' = Append(reached, type_name)
         /\ IF ~HasSchema(schemas, type_name)
            THEN /\ sortPc' = "KeyError"
                 /\ stack' = stk
            ELSE IF "type" \notin SchemaOf(schemas, type_name).keys
            THEN /\ sortPc' = "KeyError"
                 /\ stack' = stk
            ELSE /\ sortPc' = sortPc
                 /\ stack' = Append(stk,
                        [name |-> type_name, idx |-> 1,
                         props |-> WalkedProperties(SchemaOf(schemas, type_name))])

\* for type_name in schemas: visit(type_name)
SortOuterNext ==
    /\ sortPc = "run"
    /\ stack = <<>>
    /\ outerIdx <= Len(schemas)
    /\ outerIdx' = outerIdx + 1
    /\ sortSteps' = sortSteps + 1
    /\ Visit(schemas[outerIdx].name, stack)
    /\ UNCHANGED <<schemas, sorted_types, returned>>
    /\ UNCHANGED notSort

\* for prop in schema["properties"].values(): if "$ref" in prop: visit(...)
VisitProp ==
    /\ sortPc = "run"
    /\ stack # <<>>
    /\ LET top  == stack[Len(stack)]
           rest == SubSeq(stack, 1, Len(stack) - 1)
       IN  /\ top.idx <= Len(top.props)
           /\ LET prop == top.props[top.idx]
                  stk  == Append(rest, [top EXCEPT !.idx = @ + 1])
              IN  IF "$ref" \in prop.keys
                  THEN Visit(LastSegment(prop.ref, "/"), stk)
                  ELSE /\ stack' = stk
                       /\ UNCHANGED <<visited, entries, reached, sortPc>>
    /\ sortSteps' = sortSteps + 1
    /\ UNCHANGED <<schemas, outerIdx, sorted_types, returned>>
    /\ UNCHANGED notSort

\* sorted_types.append(type_name), and visit returns
VisitAppend ==
    /\ sortPc = "run"
    /\ stack # <<>>
    /\ LET top == stack[Len(stack)]
       IN  /\ top.idx > Len(top.props)
           /\ sorted_types' = Append(sorted_types, top.name)
    /\ stack' = SubSeq(stack, 1, Len(stack) - 1)
    /\ sortSteps' = sortSteps + 1
    /\ UNCHANGED <<schemas, sortPc, outerIdx, visited, entries, reached, returned>>
    /\ UNCHANGED notSort

NewVisitedKept(old) == old

\* visited = set(): each call of sort_types starts with a set of its own
NewVisited(old) == {}

\* return sorted_types
SortReturn ==
    /\ sortPc = "run"
    /\ stack = <<>>
    /\ outerIdx > Len(schemas)
    /\ sortPc' = "done"
    /\ sortSteps' = sortSteps + 1
    /\ UNCHANGED <<schemas, outerIdx, stack, visited, sorted_types, entries, reached,
                   returned>>
    /\ UNCHANGED notSort

(***************************************************************************)
(* Inputs of the sorter runs                                               *)
(***************************************************************************)
\* Reference-bearing properties in a whole schema map, at most.
MaxRefs == 3

\* Calls of sort_types on one schema map in the runs with repeated calls,
\* and the properties in a whole schema map of these runs, at most.
MaxSortCalls == 2
MaxRepeatRefs == 2

\* The schema names, in the order of the schema map, and a name that is no
\* key of the map (the target of a dangling reference).
SortNames == << <<"A">>, <<"B">>, <<"C">> >>
Missing == <<"M">>

SortNameSet == { SortNames[i] : i \in 1..Len(SortNames) }
SortTargets == SortNameSet \cup {Missing}

\* The module name generate_types passes to the resolver.
SortModule == << "p", "k", "g", ".", "O", "u", "t" >>

SortPropValues ==
    { PRef(n) : n \in SortTargets }
        \cup { PAllOf(n) : n \in SortNameSet }
        \cup { PItems(n) : n \in SortNameSet }

\* How many properties each of the three schemas holds: n in all, at most.
PropertyCountsUpTo(n) ==
    { k \in [1..Len(SortNames) -> 0..n] : k[1] + k[2] + k[3] <= n }

PropertyCounts == PropertyCountsUpTo(MaxRefs)

\* Every schema an object schema with a properties dict, but for at most one
\* that is a string schema or an enum schema (which hold no properties).
SchemaKinds ==
    { kind \in [1..Len(SortNames) -> {"object", "string", "enum"}] :
          Cardinality({ i \in 1..Len(SortNames) : kind[i] # "object" }) <= 1 }

SchemaOfKind(kind, props) ==
    IF kind = "object" THEN SObject(props)
    ELSE IF kind = "string" THEN SString
    ELSE SEnum

\* The schema maps tried: three schemas, at most one of them no object, with
\* the given numbers of properties.
SchemaMapWith(counts) ==
    \E k \in counts, kind \in SchemaKinds :
         /\ \A i \in 1..Len(SortNames) : kind[i] # "object" => k[i] = 0
         /\ \E p1 \in [1..k[1] -> SortPropValues],
               p2 \in [1..k[2] -> SortPropValues],
               p3 \in [1..k[3] -> SortPropValues] :
              schemas =
                  << [name |-> SortNames[1], schema |-> SchemaOfKind(kind[1], p1)],
                     [name |-> SortNames[2], schema |-> SchemaOfKind(kind[2], p2)],
                     [name |-> SortNames[3], schema |-> SchemaOfKind(kind[3], p3)] >>

\* The schema maps with MaxRefs properties in all.
SchemaMapInit == SchemaMapWith(PropertyCounts)

\* The start of the runs with repeated calls.
SortAgainInit ==
    /\ SchemaMapWith(PropertyCountsUpTo(MaxRepeatRefs))
    /\ sortPc = "run"
    /\ outerIdx = 1
    /\ stack = <<>>
    /\ visited = {}
    /\ sorted_types = <<>>
    /\ entries = [n \in SortTargets |-> 0]
    /\ reached = <<>>
    /\ returned = <<>>
    /\ sortSteps = 0

SortInit ==
    /\ SchemaMapInit
    /\ sortPc = "run"
    /\ outerIdx = 1
    /\ stack = <<>>
    /\ visited = {}
    /\ sorted_types = <<>>
    /\ entries = [n \in SortTargets |-> 0]
    /\ reached = <<>>
    /\ returned = <<>>
    /\ sortSteps = 0

SortIdle ==
    /\ schemas = <<>>
    /\ sortPc = "idle"
    /\ outerIdx = 1
    /\ stack = <<>>
    /\ visited = {}
    /\ sorted_types = <<>>
    /\ entries = [n \in SortTargets |-> 0]
    /\ reached = <<>>
    /\ returned = <<>>
    /\ sortSteps = 0

\* sort_types is called again on the same schema map: the list of the call
\* before has been returned, and the locals of the new call are made.
SortAgain ==
    /\ sortPc = "done"
    /\ Len(returned) + 1 < MaxSortCalls
    /\ returned' = Append(returned, sorted_types)
    /\ sorted_types' = <<>>
    /\ visited' = NewVisited(visited)
    /\ sortPc' = "run"
    /\ outerIdx' = 1
    /\ stack' = <<>>
    /\ entries' = [n \in DOMAIN entries |-> 0]
    /\ reached' = <<>>
    /\ sortSteps' = 0
    /\ UNCHANGED schemas
    /\ UNCHANGED notSort

(***************************************************************************)
(* Bounds of the sanitation runs                                           *)
(***************************************************************************)
MaxLen == 3
MaxSanCalls == 2

\* One character of each class the two sanitizers tell apart: a letter, a
\* digit, the underscore, a character both replace, a character only
\* sanitize_string replaces, and a non-ASCII letter.
SanAlphabet == { "a", "1", "_", "-", "{", "é" }

StringsUpTo(alphabet, n) == UNION { [1..k -> alphabet] : k \in 0..n }

SanInit ==
    /\ sanValue \in StringsUpTo(SanAlphabet, MaxLen)
    /\ sanLog = <<>>

SanIdle ==
    /\ sanValue = <<>>
    /\ sanLog = <<>>

\* value = Generator.sanitize_string(value)
SanitizeStringCall ==
    /\ Len(sanLog) < MaxSanCalls
    /\ sanValue' = sanitize_string(sanValue)
    /\ sanLog' = Append(sanLog, [fn |-> "sanitize_string", arg |-> sanValue,
                                 res |-> sanitize_string(sanValue)])
    /\ UNCHANGED notSan

\* name = Generator.PythonGenerator.sanitize_name(name)
SanitizeNameCall ==
    /\ Len(sanLog) < MaxSanCalls
    /\ sanValue' = sanitize_name(sanValue)
    /\ sanLog' = Append(sanLog, [fn |-> "sanitize_name", arg |-> sanValue,
                                 res |-> sanitize_name(sanValue)])
    /\ UNCHANGED notSan

(***************************************************************************)
(* Current generator: the parsed document (Typing.py dataclasses)          *)
(***************************************************************************)
\* A Property or Schema object handed to a type mapper is a record
\*   [cls, type, ref, enum, nullable, items, allOf]
\* cls is the dataclass ("Property" or "Schema"); type is the type string,
\* "None" for None; ref is the reference string, empty when None; enum is the
\* list of values, empty when None; nullable is TRUE only for True; items is
\* the sequence of the one nested Property, empty when None; allOf is the list
\* of nested Properties, empty when None. The mappers test ref, enum, nullable
\* and allOf for truth only, so None and the empty value behave alike.
Node(cls, type, ref, enum, nullable, items, allOf) ==
    [cls |-> cls, type |-> type, ref |-> ref, enum |-> enum,
     nullable |-> nullable, items |-> items, allOf |-> allOf]

(***************************************************************************)
(* String literals of the emitters                                         *)
(***************************************************************************)
S_Optional == << "O", "p", "t", "i", "o", "n", "a", "l", "[" >>
S_Close == << "]" >>
S_str == << "s", "t", "r" >>
S_List == << "L", "i", "s", "t", "[" >>
S_Dict == << "D", "i", "c", "t", "[", "s", "t", "r", ",", " ", "A", "n", "y", "]" >>
S_int == << "i", "n", "t" >>
S_float == << "f", "l", "o", "a", "t" >>
S_bool == << "b", "o", "o", "l" >>
S_Union == << "U", "n", "i", "o", "n", "[" >>
S_CommaSpace == << ",", " " >>
S_Any == << "A", "n", "y" >>
S_OrNull == << " ", "|", " ", "n", "u", "l", "l" >>
S_Array == << "A", "r", "r", "a", "y", "<" >>
S_CloseAngle == << ">" >>
S_Record == << "R", "e", "c", "o", "r", "d", "<", "s", "t", "r", "i", "n", "g", ",", " ", "a", "n", "y", ">" >>
S_number == << "n", "u", "m", "b", "e", "r" >>
S_boolean == << "b", "o", "o", "l", "e", "a", "n" >>
S_string == << "s", "t", "r", "i", "n", "g" >>
S_OpenParen == << "(" >>
S_CloseParen == << ")" >>
S_any == << "a", "n", "y" >>

(***************************************************************************)
(* Type mappers. A call returns [exc, out, node]: the exception it raised  *)
(* ("none" when it returned), the string it returned, and the object it    *)
(* was handed as the call leaves it (the mappers assign field.nullable).   *)
(***************************************************************************)
Returned(out, node) == [exc |-> "none", out |-> out, node |-> node]
Raised(exc, node)   == [exc |-> exc, out |-> <<>>, node |-> node]

\* The buggy variant of the registry test: every reference is taken for an
\* object type.
InEnumsNever(enums, name) == FALSE

\* Generator.sanitize_string(field.ref.split('/')[-1]) in self.enums
InEnums(enums, name) == \E k \in 1..Len(enums) : enums[k] = name

\* The name a reference is mapped by.
RefName(ref) == sanitize_string(LastSegment(ref, "/"))

\* The buggy variant of the wrapper: one wrapper per test of the flag.
OptionalTwice(type) == S_Optional \o S_Optional \o type \o S_Close \o S_Close

\* f"Optional[{...}]"
Optional(type) == S_Optional \o type \o S_Close

\* field.nullable = False
ClearNullable(field) == [field EXCEPT !.nullable = FALSE]

RECURSIVE TypeGenerator_get_field_type_from_property(_, _)
RECURSIVE TypeGenerator_map_all(_, _, _, _)

\* for i in field.allOf: d.append(self.get_field_type_from_property(i))
\* Returns [exc, d, allOf]: the list d and the branches as the calls leave them.
TypeGenerator_map_all(branches, k, d, enums) ==
    IF k > Len(branches) THEN [exc |-> "none", d |-> d, allOf |-> branches]
    ELSE LET r == TypeGenerator_get_field_type_from_property(branches[k], enums)
             after == [branches EXCEPT ![k] = r.node]
         IN  IF r.exc # "none" THEN [exc |-> r.exc, d |-> d, allOf |-> after]
             ELSE TypeGenerator_map_all(after, k + 1, Append(d, r.out), enums)

\* Python.TypeGenerator.get_field_type_from_property. A call on None
\* (the items of an array that has none) raises AttributeError at its first
\* attribute read, as does the call on field.properties of a Schema object.
TypeGenerator_get_field_type_from_property(field, enums) ==
    IF field.enum # <<>> THEN Raised("TypeError", field)
    ELSE IF field.cls = "Schema" THEN Raised("AttributeError", field)
    ELSE IF field.nullable
         THEN LET r == TypeGenerator_get_field_type_from_property(
                           ClearNullable(field), enums)
              IN  IF r.exc # "none" THEN r
                  ELSE Returned(Optional(r.out), r.node)
    ELSE IF field.ref # <<>>
         THEN IF InEnums(enums, RefName(field.ref))
              THEN Returned(S_str, field)
              ELSE Returned(RefName(field.ref), field)
    ELSE IF field.type = "array"
         THEN IF field.items = <<>>
              THEN Raised("AttributeError", field)
              ELSE LET r == TypeGenerator_get_field_type_from_property(
                                field.items[1], enums)
                       after == [field EXCEPT !.items = <<r.node>>]
                   IN  IF r.exc # "none" THEN Raised(r.exc, after)
                       ELSE Returned(S_List \o r.out \o S_Close, after)
    ELSE IF field.type = "object" THEN Returned(S_Dict, field)
    ELSE IF field.type = "integer" THEN Returned(S_int, field)
    ELSE IF field.type = "number" THEN Returned(S_float, field)
    ELSE IF field.type = "boolean" THEN Returned(S_bool, field)
    ELSE IF field.type = "string" THEN Returned(S_str, field)
    ELSE IF field.allOf # <<>>
         THEN LET r == TypeGenerator_map_all(field.allOf, 1, <<>>, enums)
                  after == [field EXCEPT !.allOf = r.allOf]
              IN  IF r.exc # "none" THEN Raised(r.exc, after)
                  ELSE Returned(S_Union \o JoinWith(S_CommaSpace, r.d) \o S_Close, after)
    ELSE Returned(S_Any, field)

RECURSIVE ClientGenerator_get_field_type_from_property(_, _)
\* Python.ClientGenerator.get_field_type_from_property
ClientGenerator_get_field_type_from_property(field, enums) ==
    IF field.nullable
         THEN LET r == ClientGenerator_get_field_type_from_property(
                           ClearNullable(field), enums)
              IN  IF r.exc # "none" THEN r
                  ELSE Returned(Optional(r.out), r.node)
    ELSE IF field.ref # <<>>
         THEN IF InEnums(enums, RefName(field.ref))
              THEN Returned(S_str, field)
              ELSE Returned(RefName(field.ref), field)
    ELSE IF field.type = "array"
         THEN IF field.items = <<>>
              THEN Raised("AttributeError", field)
              ELSE LET r == ClientGenerator_get_field_type_from_property(
                                field.items[1], enums)
                       after == [field EXCEPT !.items = <<r.node>>]
                   IN  IF r.exc # "none" THEN Raised(r.exc, after)
                       ELSE Returned(S_List \o r.out \o S_Close, after)
    ELSE IF field.type = "object" THEN Returned(S_Dict, field)
    ELSE IF field.type = "integer" THEN Returned(S_int, field)
    ELSE IF field.type = "number" THEN Returned(S_float, field)
    ELSE IF field.type = "boolean" THEN Returned(S_bool, field)
    ELSE Returned(S_str, field)

RECURSIVE JS_TypeGenerator_get_field_type_from_property(_)
RECURSIVE JS_TypeGenerator_map_all(_, _, _)

JS_TypeGenerator_map_all(branches, k, d) ==
    IF k > Len(branches) THEN [exc |-> "none", d |-> d, allOf |-> branches]
    ELSE LET r == JS_TypeGenerator_get_field_type_from_property(branches[k])
             after == [branches EXCEPT ![k] = r.node]
         IN  IF r.exc # "none" THEN [exc |-> r.exc, d |-> d, allOf |-> after]
             ELSE JS_TypeGenerator_map_all(after, k + 1, Append(d, r.out))

\* JavaScript.TypeGenerator.get_field_type_from_property
JS_TypeGenerator_get_field_type_from_property(field) ==
    IF field.cls = "Schema" THEN Raised("AttributeError", field)
    ELSE IF field.nullable
         THEN LET r == JS_TypeGenerator_get_field_type_from_property(
                           ClearNullable(field))
              IN  IF r.exc # "none" THEN r
                  ELSE Returned(r.out \o S_OrNull, r.node)
    ELSE IF field.ref # <<>> THEN Returned(RefName(field.ref), field)
    ELSE IF field.type = "array"
         THEN IF field.items = <<>>
              THEN Raised("AttributeError", field)
              ELSE LET r == JS_TypeGenerator_get_field_type_from_property(
                                field.items[1])
                       after == [field EXCEPT !.items = <<r.node>>]
                   IN  IF r.exc # "none" THEN Raised(r.exc, after)
                       ELSE Returned(S_Array \o r.out \o S_CloseAngle, after)
    ELSE IF field.type = "object" THEN Returned(S_Record, field)
    ELSE IF field.type = "integer" THEN Returned(S_number, field)
    ELSE IF field.type = "number" THEN Returned(S_number, field)
    ELSE IF field.type = "boolean" THEN Returned(S_boolean, field)
    ELSE IF field.type = "string" THEN Returned(S_string, field)
    ELSE IF field.allOf # <<>>
         THEN LET r == JS_TypeGenerator_map_all(field.allOf, 1, <<>>)
                  after == [field EXCEPT !.allOf = r.allOf]
              IN  IF r.exc # "none" THEN Raised(r.exc, after)
                  ELSE Returned(S_OpenParen \o JoinWith(S_CommaSpace, r.d)
                                    \o S_CloseParen, after)
    ELSE Returned(S_any, field)

RECURSIVE JS_ClientGenerator_get_field_type_from_property(_)
\* JavaScript.ClientGenerator.get_field_type_from_property
JS_ClientGenerator_get_field_type_from_property(field) ==
    IF field.nullable
         THEN LET r == JS_ClientGenerator_get_field_type_from_property(
                           ClearNullable(field))
              IN  IF r.exc # "none" THEN r
                  ELSE Returned(r.out \o S_OrNull, r.node)
    ELSE IF field.enum # <<>> THEN Returned(S_string, field)
    ELSE IF field.ref # <<>> THEN Returned(RefName(field.ref), field)
    ELSE IF field.type = "array"
         THEN IF field.items = <<>>
              THEN Raised("AttributeError", field)
              ELSE LET r == JS_ClientGenerator_get_field_type_from_property(
                                field.items[1])
                       after == [field EXCEPT !.items = <<r.node>>]
                   IN  IF r.exc # "none" THEN Raised(r.exc, after)
                       ELSE Returned(S_Array \o r.out \o S_CloseAngle, after)
    ELSE IF field.type = "object" THEN Returned(S_Record, field)
    ELSE IF field.type = "integer" THEN Returned(S_number, field)
    ELSE IF field.type = "number" THEN Returned(S_number, field)
    ELSE IF field.type = "boolean" THEN Returned(S_boolean, field)
    ELSE Returned(S_string, field)

(***************************************************************************)
(* Inputs and calls of the mapper runs                                     *)
(***************************************************************************)
\* Mapper calls made on one object.
MaxMapCalls == 2

\* Schema names of the document the objects come from: an object type, an
\* enum type, and a name that is no key of components.schemas.
Widget == << "W", "i", "d", "g", "e", "t" >>
Color == << "C", "o", "l", "o", "r" >>
MissingName == << "M", "i", "s", "s", "i", "n", "g" >>

EnumValues == << "RED", "GREEN" >>

RefChoices == { <<>>, RefTo(Widget), RefTo(Color), RefTo(MissingName) }

\* Objects without nested objects, of dataclass cls.
Leaves(cls) ==
    { Node(cls, t, r, e, n, <<>>, <<>>) :
          t \in {"None", "array", "object", "integer", "number", "boolean", "string"},
          r \in RefChoices, e \in {<<>>, EnumValues}, n \in BOOLEAN }

ItemLeaves ==
    { Node("Property", t, r, <<>>, n, <<>>, <<>>) :
          t \in {"None", "integer", "object"}, r \in RefChoices, n \in BOOLEAN }

InnerLeaves ==
    { Node("Property", "integer", <<>>, <<>>, FALSE, <<>>, <<>>),
      Node("Property", "None", RefTo(Widget), <<>>, FALSE, <<>>, <<>>),
      Node("Property", "None", RefTo(Color), <<>>, FALSE, <<>>, <<>>) }

\* Arrays of arrays.
NestedArrays ==
    { Node("Property", "array", <<>>, <<>>, n, <<i>>, <<>>) :
          n \in BOOLEAN, i \in InnerLeaves }

\* Arrays with items, of dataclass cls.
Arrays(cls) ==
    { Node(cls, "array", <<>>, <<>>, n, <<i>>, <<>>) :
          n \in BOOLEAN, i \in ItemLeaves \cup NestedArrays }

AllOfBranches ==
    InnerLeaves \cup { Node("Property", "integer", <<>>, <<>>, TRUE, <<>>, <<>>) }

\* Properties with allOf, with and without a type of their own.
AllOfNodes ==
    { Node("Property", t, <<>>, <<>>, n, <<>>, b) :
          t \in {"None", "string"}, n \in BOOLEAN,
          b \in UNION { [1..k -> AllOfBranches] : k \in 1..2 } }

MapNodes ==
    Leaves("Property") \cup Leaves("Schema") \cup Arrays("Property")
        \cup Arrays("Schema") \cup AllOfNodes

MapInit ==
    /\ mapField \in MapNodes
    /\ mapEnums \in { <<>>, <<Color>> }
    /\ mapLog = <<>>

MapIdle ==
    /\ mapField = <<>>
    /\ mapEnums = <<>>
    /\ mapLog = <<>>

\* The call is logged and the object is left as the call leaves it.
Logged(mapper, r) ==
    /\ mapField' = r.node
    /\ mapLog' = Append(mapLog, [mapper |-> mapper, arg |-> mapField,
                                 exc |-> r.exc, out |-> r.out])

\* Python.TypeGenerator.get_field_type_from_property(mapField)
TypeGeneratorMap ==
    /\ Len(mapLog) < MaxMapCalls
    /\ Logged("Python.TypeGenerator",
              TypeGenerator_get_field_type_from_property(mapField, mapEnums))
    /\ UNCHANGED mapEnums
    /\ UNCHANGED notMap

\* Python.ClientGenerator.get_field_type_from_property(mapField)
ClientGeneratorMap ==
    /\ Len(mapLog) < MaxMapCalls
    /\ Logged("Python.ClientGenerator",
              ClientGenerator_get_field_type_from_property(mapField, mapEnums))
    /\ UNCHANGED mapEnums
    /\ UNCHANGED notMap

\* JavaScript.TypeGenerator.get_field_type_from_property(mapField)
JsTypeGeneratorMap ==
    /\ Len(mapLog) < MaxMapCalls
    /\ Logged("JavaScript.TypeGenerator",
              JS_TypeGenerator_get_field_type_from_property(mapField))
    /\ UNCHANGED mapEnums
    /\ UNCHANGED notMap

\* JavaScript.ClientGenerator.get_field_type_from_property(mapField)
JsClientGeneratorMap ==
    /\ Len(mapLog) < MaxMapCalls
    /\ Logged("JavaScript.ClientGenerator",
              JS_ClientGenerator_get_field_type_from_property(mapField))
    /\ UNCHANGED mapEnums
    /\ UNCHANGED notMap

(***************************************************************************)
(* Current generator: the generation pass of one document                  *)
(***************************************************************************)
\* A parsed document (Typing.OpenAPI) is a record
\*   [title, hasComponents, hasSchemas, schemas, paths]
\* hasComponents and hasSchemas say whether data.components and
\* data.components.schemas are objects (not None). schemas is the ordered
\* dict components.schemas: <<[name, enum, properties], ...>>, properties the
\* ordered dict <<[name, field], ...>> (empty for None or {}). paths is the
\* ordered dict <<[url, methods], ...>>, methods the operations of the
\* Methods object that are not None, in field order: <<[method, operation]>>.
\* An operation is [parameters, hasResponses, responses]: parameters is
\* <<[name, schema]>> with schema the sequence of the one Schema object (empty
\* for None); responses is the dict <<[status, content]>> and content the
\* dict <<[media, schema]>> (empty for None or {}), schema again a sequence.

S_Brace == << "{" >>
S_EndBrace == << "}" >>
S_Underscore == << "_" >>
S_Kwargs == << "*", "*", "k", "w", "a", "r", "g", "s" >>
S_Config == << "c", "o", "n", "f", "i", "g", " ", "=", " ", "{", "}" >>
S_Quote == << "'" >>

\* "List[" in output_type
IsListType(output_type) == Contains(output_type, S_List)

\* The buggy variant of the element type: only the opening is removed.
ListElementTypeKeepClose(output_type) == Replace(output_type, S_List, <<>>)

\* output_type.replace("List[", "").replace("]", "")
ListElementType(output_type) ==
    Replace(Replace(output_type, S_List, <<>>), S_Close, <<>>)

\* dict.get(key) on a dict held as <<[key-field |-> ..., ...]>>: the index of
\* the entry, 0 for None
StatusIndex(responses, status) ==
    IF \E k \in 1..Len(responses) : responses[k].status = status
    THEN CHOOSE k \in 1..Len(responses) : responses[k].status = status
    ELSE 0

MediaIndex(content, media) ==
    IF \E k \in 1..Len(content) : content[k].media = media
    THEN CHOOSE k \in 1..Len(content) : content[k].media = media
    ELSE 0

\* Python.TypeGenerator.detect_enums, Python.generate_enums: the sanitized
\* names of the schemas whose enum is populated, in document order
RECURSIVE detect_enums_from(_, _)
detect_enums_from(schemaSeq, k) ==
    IF k > Len(schemaSeq) THEN <<>>
    ELSE (IF schemaSeq[k].enum # <<>>
          THEN << sanitize_string(schemaSeq[k].name) >> ELSE <<>>)
         \o detect_enums_from(schemaSeq, k + 1)

detect_enums(doc) ==
    IF doc.schemas # <<>> THEN detect_enums_from(doc.schemas, 1) ELSE <<>>

RECURSIVE generate_fields(_, _, _, _)
\* for field_name, field in schema.properties.items(): fields.append(...)
\* Returns [exc, fields, properties]: the fields and the properties as left.
generate_fields(properties, k, fields, enums) ==
    IF k > Len(properties)
    THEN [exc |-> "none", fields |-> fields, properties |-> properties]
    ELSE With(TypeGenerator_get_field_type_from_property(properties[k].field, enums),
              LAMBDA r :
                  IF r.exc # "none"
                  THEN [exc |-> r.exc, fields |-> fields,
                        properties |-> [properties EXCEPT ![k].field = r.node]]
                  ELSE generate_fields(
                           [properties EXCEPT ![k].field = r.node], k + 1,
                           Append(fields, [name |-> properties[k].name, type |-> r.out]),
                           enums))

\* Python.TypeGenerator.generate_type. The text returned is held as
\* [kind, name, fields]: kind "empty" is the empty string returned for an enum
\* schema, "pass" the dataclass with the body pass, "class" the dataclass
\* with one line per field. Returns [exc, def, schema].
generate_type(schema, enums) ==
    IF schema.properties = <<>>
    THEN [exc |-> "none", schema |-> schema,
          def |-> [kind |-> IF schema.enum # <<>> THEN "empty" ELSE "pass",
                   name |-> sanitize_string(schema.name), fields |-> <<>>]]
    ELSE With(generate_fields(schema.properties, 1, <<>>, enums),
              LAMBDA r :
                  [exc |-> r.exc,
                   schema |-> [schema EXCEPT !.properties = r.properties],
                   def |-> [kind |-> "class", name |-> sanitize_string(schema.name),
                            fields |-> r.fields]])

RECURSIVE generate_types(_, _, _, _)
\* The loop of Python.TypeGenerator.generate over components.schemas.
generate_types(schemaSeq, k, defs, enums) ==
    IF k > Len(schemaSeq)
    THEN [exc |-> "none", defs |-> defs, schemas |-> schemaSeq]
    ELSE With(generate_type(schemaSeq[k], enums),
              LAMBDA r :
                  IF r.exc # "none"
                  THEN [exc |-> r.exc, defs |-> defs,
                        schemas |-> [schemaSeq EXCEPT ![k] = r.schema]]
                  ELSE generate_types([schemaSeq EXCEPT ![k] = r.schema], k + 1,
                                      Append(defs, r.def), enums))

RECURSIVE generate_parameters(_, _, _, _)
\* for i in operation.parameters or []: input_parameters_list.append(...)
generate_parameters(parameters, k, list, enums) ==
    IF k > Len(parameters)
    THEN [exc |-> "none", list |-> list, parameters |-> parameters]
    ELSE IF parameters[k].schema = <<>>
    THEN [exc |-> "AttributeError", list |-> list, parameters |-> parameters]
    ELSE With(ClientGenerator_get_field_type_from_property(parameters[k].schema[1],
                                                           enums),
              LAMBDA r :
                  IF r.exc # "none"
                  THEN [exc |-> r.exc, list |-> list,
                        parameters |-> [parameters EXCEPT ![k].schema = <<r.node>>]]
                  ELSE generate_parameters(
                           [parameters EXCEPT ![k].schema = <<r.node>>], k + 1,
                           Append(list, [name |-> parameters[k].name, type |-> r.out]),
                           enums))

\* Python.ClientGenerator.get_preferred_output_type.
\* Returns [exc, out, operation].
get_preferred_output_type(operation, enums) ==
    IF ~operation.hasResponses
    THEN [exc |-> "AttributeError", out |-> <<>>, operation |-> operation]
    ELSE LET i200 == StatusIndex(operation.responses, "200")
             idef == StatusIndex(operation.responses, "default")
             pref == IF i200 # 0 THEN i200 ELSE idef
             media == IF pref = 0 THEN 0
                      ELSE MediaIndex(operation.responses[pref].content,
                                      "application/json")
         IN  IF media = 0
             THEN [exc |-> "none", out |-> S_Any, operation |-> operation]
             ELSE IF operation.responses[pref].content[media].schema = <<>>
             THEN [exc |-> "none", out |-> S_Any, operation |-> operation]
             ELSE With(ClientGenerator_get_field_type_from_property(
                           operation.responses[pref].content[media].schema[1], enums),
                       LAMBDA r :
                           [exc |-> r.exc, out |-> r.out,
                            operation |->
                                [operation EXCEPT
                                     !.responses[pref].content[media].schema =
                                         <<r.node>>]])

\* The method name: the lower-cased verb, "_", and the sanitized path without
\* its braces and without one leading underscore.
method_name(method, path) ==
    method \o S_Underscore \o
        RemovePrefix(sanitize_string(Replace(Replace(path, S_Brace, <<>>),
                                             S_EndBrace, <<>>)),
                     S_Underscore)

\* Python.ClientGenerator.generate_method. The text returned is held as
\* [name, parameters, keywords, output_type, is_list, response_model]: the
\* def line's name, its parameters before **kwargs (names only: the annotated
\* list input_parameters_list is built and not used), the keyword passthrough
\* that ends the parameter list, its return annotation, and
\* the response_model_list and response_model arguments of self._request.
\* Returns [exc, method, operation].
generate_method(method, path, operation, enums) ==
    With(generate_parameters(operation.parameters, 1, <<>>, enums),
         LAMBDA p :
             IF p.exc # "none"
             THEN [exc |-> p.exc, method |-> <<>>,
                   operation |-> [operation EXCEPT !.parameters = p.parameters]]
             ELSE With(get_preferred_output_type(
                           [operation EXCEPT !.parameters = p.parameters], enums),
                       LAMBDA o :
                           IF o.exc # "none"
                           THEN [exc |-> o.exc, operation |-> o.operation,
                                 method |-> <<>>]
                           ELSE [exc |-> "none", operation |-> o.operation,
                                 method |->
                                     << [name |-> method_name(method, path),
                                         parameters |->
                                             [k \in 1..Len(operation.parameters) |->
                                                  operation.parameters[k].name],
                                         keywords |-> S_Kwargs,
                                         output_type |-> o.out,
                                         is_list |-> IsListType(o.out),
                                         response_model |->
                                             Replace(IF IsListType(o.out)
                                                     THEN ListElementType(o.out)
                                                     ELSE o.out,
                                                     S_Quote, <<>>)] >>]))

RECURSIVE generate_methods_of(_, _, _, _, _)
\* The inner loop of generate_methods: the operations of one path item.
generate_methods_of(url, ops, k, methods, enums) ==
    IF k > Len(ops) THEN [exc |-> "none", methods |-> methods, ops |-> ops]
    ELSE With(generate_method(ops[k].method, url, ops[k].operation, enums),
              LAMBDA r :
                  IF r.exc # "none"
                  THEN [exc |-> r.exc, methods |-> methods,
                        ops |-> [ops EXCEPT ![k].operation = r.operation]]
                  ELSE generate_methods_of(
                           url, [ops EXCEPT ![k].operation = r.operation],
                           k + 1, methods \o r.method, enums))

RECURSIVE generate_methods(_, _, _, _)
\* Python.ClientGenerator.generate_methods
generate_methods(paths, k, methods, enums) ==
    IF k > Len(paths) THEN [exc |-> "none", methods |-> methods, paths |-> paths]
    ELSE With(generate_methods_of(paths[k].url, paths[k].methods, 1, methods, enums),
              LAMBDA r :
                  IF r.exc # "none"
                  THEN [exc |-> r.exc, methods |-> r.methods,
                        paths |-> [paths EXCEPT ![k].methods = r.ops]]
                  ELSE generate_methods([paths EXCEPT ![k].methods = r.ops],
                                        k + 1, r.methods, enums))

\* The record of a pass:
\*   [generator, parsed, left, outcome, enums, type_definitions, methods, written]
\* parsed is the document as the pass found it and left the document as the
\* pass left it; outcome is "written", "no types", "no client code" or the
\* exception that ended the pass; written counts the artifacts rendered and
\* written.
PassResult(generator, doc, after, outcome, enums, defs, methods) ==
    [generator |-> generator, parsed |-> doc, left |-> after, outcome |-> outcome,
     enums |-> enums, type_definitions |-> defs, methods |-> methods,
     written |-> IF outcome = "written" THEN 1 ELSE 0]

\* Python.generate
Python_generate(doc) ==
    IF ~doc.hasComponents \/ ~doc.hasSchemas
    THEN PassResult("Python", doc, doc, "AttributeError", <<>>, <<>>, <<>>)
    ELSE With(generate_types(doc.schemas, 1, <<>>, detect_enums(doc)),
              LAMBDA t :
                  IF t.exc # "none"
                  THEN PassResult("Python", doc, [doc EXCEPT !.schemas = t.schemas],
                                  t.exc, detect_enums(doc), t.defs, <<>>)
                  ELSE IF t.defs = <<>>
                  THEN PassResult("Python", doc, [doc EXCEPT !.schemas = t.schemas],
                                  "no types", detect_enums(doc), t.defs, <<>>)
                  ELSE With(generate_methods(doc.paths, 1, <<>>, detect_enums(doc)),
                            LAMBDA m :
                                PassResult("Python", doc,
                                           [doc EXCEPT !.schemas = t.schemas,
                                                       !.paths = m.paths],
                                           IF m.exc # "none" THEN m.exc
                                           ELSE IF m.methods = <<>>
                                           THEN "no client code"
                                           ELSE "written",
                                           detect_enums(doc), t.defs, m.methods)))

\* JavaScript.TypeGenerator.generate_type, held as generate_type's text is:
\* kind "pass" is the class with the empty body, fields hold the names only.
JS_generate_type(schema) ==
    [kind |-> IF schema.properties = <<>> THEN "pass" ELSE "class",
     name |-> sanitize_string(schema.name),
     fields |-> [k \in 1..Len(schema.properties) |->
                    [name |-> schema.properties[k].name, type |-> <<>>]]]

\* JavaScript.ClientGenerator.generate_method, held as generate_method's text
\* is: the JavaScript method states no return type and decodes nothing.
JS_generate_method(method, path, operation) ==
    [name |-> method_name(method, path),
     parameters |-> [k \in 1..Len(operation.parameters) |->
                        operation.parameters[k].name],
     keywords |-> S_Config,
     output_type |-> <<>>, is_list |-> FALSE, response_model |-> <<>>]

RECURSIVE JS_generate_methods(_, _)
\* JavaScript.ClientGenerator.generate_methods
JS_generate_methods(paths, k) ==
    IF k > Len(paths) THEN <<>>
    ELSE [j \in 1..Len(paths[k].methods) |->
              JS_generate_method(paths[k].methods[j].method, paths[k].url,
                                 paths[k].methods[j].operation)]
         \o JS_generate_methods(paths, k + 1)

\* JavaScript.generate
JavaScript_generate(doc) ==
    IF ~doc.hasComponents
    THEN PassResult("JavaScript", doc, doc, "AttributeError", <<>>, <<>>, <<>>)
    ELSE LET defs == IF doc.hasSchemas
                     THEN [k \in 1..Len(doc.schemas) |-> JS_generate_type(doc.schemas[k])]
                     ELSE <<>>
             methods == JS_generate_methods(doc.paths, 1)
         IN  IF defs = <<>>
             THEN PassResult("JavaScript", doc, doc, "no types", <<>>, defs, <<>>)
             ELSE IF methods = <<>>
             THEN PassResult("JavaScript", doc, doc, "no client code", <<>>, defs, methods)
             ELSE PassResult("JavaScript", doc, doc, "written", <<>>, defs, methods)

(***************************************************************************)
(* Inputs and passes of the generation runs                                *)
(***************************************************************************)
\* Generation passes made on one parsed document.
MaxPasses == 2

S_get == << "g", "e", "t" >>
S_post == << "p", "o", "s", "t" >>
S_id == << "i", "d" >>
S_color == << "c", "o", "l", "o", "r" >>
S_WidgetsPath == << "/", "w", "i", "d", "g", "e", "t", "s", "/", "{", "i", "d", "}" >>
S_Title == << "S", "h", "o", "p" >>

\* The properties tried for Widget.color: plain, nullable, referring, with
\* inline enum values, and arrays.
PropertyChoices ==
    { Node("Property", t, r, <<>>, n, <<>>, <<>>) :
          t \in {"None", "integer", "string"}, r \in RefChoices, n \in BOOLEAN }
    \cup { Node("Property", "string", <<>>, EnumValues, FALSE, <<>>, <<>>) }
    \cup { Node("Property", "array", <<>>, <<>>, n, <<i>>, <<>>) :
               n \in BOOLEAN, i \in InnerLeaves }

\* The schemas tried for the application/json content of the 200 response.
ResponseChoices ==
    { Node("Schema", t, r, <<>>, n, <<>>, <<>>) :
          t \in {"None", "object", "integer"}, r \in RefChoices, n \in BOOLEAN }
    \cup Arrays("Schema")

\* components.schemas: Color, an enum of strings or an object without
\* properties, and Widget with the properties id and color.
GenSchemas(colorIsEnum, color) ==
    << [name |-> Color, enum |-> IF colorIsEnum THEN EnumValues ELSE <<>>,
        properties |-> <<>>],
       [name |-> Widget, enum |-> <<>>,
        properties |->
            << [name |-> S_id,
                field |-> Node("Property", "integer", <<>>, <<>>, FALSE, <<>>, <<>>)],
               [name |-> S_color, field |-> color] >>] >>

\* The responses dicts tried for GET /widgets/{id}, by shape, around one
\* schema under test; the other schema is the integer.
ResponseShapes ==
    { "default", "default and 200", "404", "empty", "200 without content",
      "200 as text" }

JsonContent(schema) == << [media |-> "application/json", schema |-> <<schema>>] >>

IntegerSchema == Node("Schema", "integer", <<>>, <<>>, FALSE, <<>>, <<>>)

GenResponses(shape, response) ==
    CASE shape = "200" ->
             << [status |-> "200", content |-> JsonContent(response)] >>
      [] shape = "default" ->
             << [status |-> "default", content |-> JsonContent(response)] >>
      [] shape = "default and 200" ->
             << [status |-> "default", content |-> JsonContent(IntegerSchema)],
                [status |-> "200", content |-> JsonContent(response)] >>
      [] shape = "404" ->
             << [status |-> "404", content |-> JsonContent(response)] >>
      [] shape = "empty" -> <<>>
      [] shape = "200 without content" ->
             << [status |-> "200", content |-> <<>>],
                [status |-> "default", content |-> JsonContent(response)] >>
      [] shape = "200 as text" ->
             << [status |-> "200",
                 content |-> << [media |-> "text/plain",
                                 schema |-> <<response>>] >>] >>

\* paths: GET /widgets/{id} with the path parameter id; hasResponses is
\* FALSE for an operation without the key responses
GenPathsOf(hasResponses, responses) ==
    << [url |-> S_WidgetsPath,
        methods |->
            << [method |-> S_get,
                operation |->
                    [parameters |-> << [name |-> S_id,
                                        schema |-> <<IntegerSchema>>] >>,
                     hasResponses |-> hasResponses,
                     responses |-> responses]] >>] >>

\* The path urls tried as keys of paths.
PathChoices ==
    { << "/", "a", "/", "{", "b", "}" >>, << "/", "a", "/", "b" >>,
      << "/", "a", "-", "b" >>, << "/", "1" >>, << "/", "x", "²" >>, << "/" >> }

\* The parameter lists tried for an operation.
ParameterChoices ==
    { <<>>,
      << [name |-> S_id, schema |-> <<IntegerSchema>>] >>,
      << [name |-> S_id, schema |-> <<IntegerSchema>>],
         [name |-> S_color,
          schema |-> << Node("Schema", "None", RefTo(Color), <<>>, FALSE,
                             <<>>, <<>>) >>] >>,
      << [name |-> S_color,
          schema |-> << Node("Schema", "string", <<>>, <<>>, TRUE, <<>>, <<>>) >>],
         [name |-> S_id, schema |-> <<IntegerSchema>>] >> }

\* The operations a path item holds, in the order of the fields of Methods.
VerbChoices == { << S_get >>, << S_post >>, << S_get, S_post >> }

\* One entry of paths: the operations of verbs under url, each with the
\* given parameters and one 200 response with an integer.
GenPathItem(url, verbs, parameters) ==
    [url |-> url,
     methods |->
         [k \in 1..Len(verbs) |->
              [method |-> verbs[k],
               operation |->
                   [parameters |-> parameters,
                    hasResponses |-> TRUE,
                    responses |-> GenResponses("200", IntegerSchema)]]]]

\* paths: GET /widgets/{id} with one 200 response
GenPaths(response) == GenPathsOf(TRUE, GenResponses("200", response))

GenDocument(colorIsEnum, color, response) ==
    [title |-> S_Title, hasComponents |-> TRUE, hasSchemas |-> TRUE,
     schemas |-> GenSchemas(colorIsEnum, color),
     paths |-> GenPaths(response)]

\* Two schema names that sanitize_string maps to the same identifier.
S_EnumTwin == << "C", "-", "x" >>
S_ObjectTwin == << "C", "_", "x" >>

\* The documents with the twins: the first an enum or an object, the second
\* an object, and Widget.color and the response referring to one of them.
TwinDocument(firstIsEnum, target) ==
    [title |-> S_Title, hasComponents |-> TRUE, hasSchemas |-> TRUE,
     schemas |->
         << [name |-> S_EnumTwin,
             enum |-> IF firstIsEnum THEN EnumValues ELSE <<>>,
             properties |-> <<>>],
            [name |-> S_ObjectTwin, enum |-> <<>>, properties |-> <<>>],
            [name |-> Widget, enum |-> <<>>,
             properties |->
                 << [name |-> S_color,
                     field |-> Node("Property", "None", RefTo(target), <<>>,
                                    FALSE, <<>>, <<>>)] >>] >>,
     paths |-> GenPaths(Node("Schema", "None", RefTo(target), <<>>, FALSE,
                             <<>>, <<>>))]

\* The documents with little in them: without components, with components
\* without schemas, with no schema, with enum schemas only, with no path and
\* with a path item without operations.
SparseDocuments ==
    LET full == GenDocument(TRUE, Node("Property", "None", RefTo(Color), <<>>,
                                       FALSE, <<>>, <<>>), IntegerSchema)
    IN  { [full EXCEPT !.hasComponents = FALSE, !.hasSchemas = FALSE,
                       !.schemas = <<>>],
          [full EXCEPT !.hasSchemas = FALSE, !.schemas = <<>>],
          [full EXCEPT !.schemas = <<>>],
          [full EXCEPT !.schemas = << full.schemas[1] >>],
          [full EXCEPT !.paths = <<>>],
          [full EXCEPT !.paths = << [url |-> S_WidgetsPath, methods |-> <<>>] >>],
          [full EXCEPT !.schemas = <<>>, !.paths = <<>>] }

ReferenceToColor == Node("Property", "None", RefTo(Color), <<>>, FALSE, <<>>, <<>>)

\* The documents tried: every property and response schema under one 200
\* response; every response shape around every response schema; the
\* operation without responses; Widget listed before Color; one or two
\* paths of every url and set of verbs; the sparse documents; the documents
\* with two schema names of one identifier; every parameter list.
GenInit ==
    /\ \/ \E colorIsEnum \in BOOLEAN, color \in PropertyChoices,
             response \in ResponseChoices :
              genDoc = GenDocument(colorIsEnum, color, response)
       \/ \E shape \in ResponseShapes, response \in ResponseChoices :
              genDoc = [GenDocument(TRUE, ReferenceToColor, response)
                            EXCEPT !.paths = GenPathsOf(TRUE,
                                                 GenResponses(shape, response))]
       \/ genDoc = [GenDocument(TRUE, ReferenceToColor, IntegerSchema)
                        EXCEPT !.paths = GenPathsOf(FALSE, <<>>)]
       \/ \E colorIsEnum \in BOOLEAN, color \in PropertyChoices :
              genDoc = [GenDocument(colorIsEnum, color, IntegerSchema)
                            EXCEPT !.schemas =
                                << GenSchemas(colorIsEnum, color)[2],
                                   GenSchemas(colorIsEnum, color)[1] >>]
       \/ \E url1 \in PathChoices, url2 \in PathChoices \cup { <<>> },
             verbs1 \in VerbChoices, verbs2 \in VerbChoices :
              /\ url1 # url2
              /\ genDoc = [GenDocument(TRUE, ReferenceToColor, IntegerSchema)
                               EXCEPT !.paths =
                                   << GenPathItem(url1, verbs1, <<>>) >>
                                   \o IF url2 = <<>> THEN <<>>
                                      ELSE << GenPathItem(url2, verbs2, <<>>) >>]
       \/ genDoc \in SparseDocuments
       \/ \E firstIsEnum \in BOOLEAN, target \in { S_EnumTwin, S_ObjectTwin } :
              genDoc = TwinDocument(firstIsEnum, target)
       \/ \E colorIsEnum \in BOOLEAN, parameters \in ParameterChoices :
              genDoc = [GenDocument(colorIsEnum, ReferenceToColor, IntegerSchema)
                            EXCEPT !.paths =
                                << GenPathItem(S_WidgetsPath, << S_get >>,
                                               parameters) >>]
    /\ genLog = <<>>

GenIdle ==
    /\ genDoc = <<>>
    /\ genLog = <<>>

\* Python(genDoc, template, log, output_folder).generate()
PythonGenerate ==
    /\ Len(genLog) < MaxPasses
    /\ \E pass \in { Python_generate(genDoc) } :
           /\ genDoc' = pass.left
           /\ genLog' = Append(genLog, pass)
    /\ UNCHANGED notGen

\* JavaScript(genDoc, template, log, output_folder).generate()
JavaScriptGenerate ==
    /\ Len(genLog) < MaxPasses
    /\ \E pass \in { JavaScript_generate(genDoc) } :
           /\ genDoc' = pass.left
           /\ genLog' = Append(genLog, pass)
    /\ UNCHANGED notGen

(***************************************************************************)
(* Inputs and calls of the resolver runs                                   *)
(***************************************************************************)
\* Resolver calls made on one schema map.
MaxResolveCalls == 1

\* The module names start() is given: none, the dotted name of an output
\* folder named unlike every schema, and one whose last part (the sanitized
\* title of the document) is the name of a schema.
ModuleNamedLikeSchema == << "p", "k", "g", "." >> \o SortNames[2]

ResolveModules == { NoModule, SortModule, ModuleNamedLikeSchema }

\* A schema map on which sort_types is not running.
ResolveInit ==
    /\ SchemaMapInit
    /\ sortPc = "idle"
    /\ outerIdx = 1
    /\ stack = <<>>
    /\ visited = {}
    /\ sorted_types = <<>>
    /\ entries = [n \in SortTargets |-> 0]
    /\ reached = <<>>
    /\ returned = <<>>
    /\ sortSteps = 0
    /\ resLog = <<>>

ResolveIdle == resLog = <<>>

\* ref = self.Object_Class_Generator.detect_reference(schema, self.module_name,
\*                                                    resident=type)
DetectReference ==
    /\ Len(resLog) < MaxResolveCalls
    /\ \E i \in 1..Len(schemas), module \in ResolveModules :
           \E r \in { detect_reference(schemas[i].schema, module, schemas[i].name) } :
               resLog' = Append(resLog,
                                [type |-> schemas[i].name, module |-> module,
                                 exc |-> r.exc, references |-> r.references,
                                 ref_code |-> r.ref_code])
    /\ UNCHANGED notRes

(***************************************************************************)
(* main.ref_key_transformer                                                *)
(*                                                                         *)
(* A JSON value is [kind, items]: a dict holds its items as the sequence of *)
(* [key, value] in insertion order, a list holds its elements, a scalar     *)
(* holds nothing.                                                           *)
(***************************************************************************)
JScalar == [kind |-> "scalar", items |-> <<>>]
JDict(items) == [kind |-> "dict", items |-> items]
JList(items) == [kind |-> "list", items |-> items]

\* "ref" if k == "$ref" else ("in_" if k == "in" else k)
RenameKey(k) == IF k = "$ref" THEN "ref" ELSE IF k = "in" THEN "in_" ELSE k

\* d[key] = value on the items of a dict: a key already there keeps its
\* place and gets the new value.
DictSet(items, key, value) ==
    IF \E i \in 1..Len(items) : items[i].key = key
    THEN [i \in 1..Len(items) |->
              IF items[i].key = key THEN [key |-> key, value |-> value]
              ELSE items[i]]
    ELSE Append(items, [key |-> key, value |-> value])

RECURSIVE ref_key_transformer(_)
RECURSIVE TransformItems(_, _, _)
\* The dict comprehension over data.items()
TransformItems(items, k, out) ==
    IF k > Len(items) THEN out
    ELSE TransformItems(items, k + 1,
                        DictSet(out, RenameKey(items[k].key),
                                ref_key_transformer(items[k].value)))

ref_key_transformer(tree) ==
    IF tree.kind = "dict" THEN JDict(TransformItems(tree.items, 1, <<>>))
    ELSE IF tree.kind = "list"
    THEN JList([i \in 1..Len(tree.items) |-> ref_key_transformer(tree.items[i])])
    ELSE tree

\* Calls of ref_key_transformer made on one tree.
MaxTransformCalls == 1

\* The keys tried: the two reserved keys, the two names they are renamed to,
\* and another key.
TreeKeys == { "$ref", "in", "ref", "in_", "x" }

\* The dicts of at most two items with values of the given set.
DictsOver(values) ==
    { JDict(<<>>) }
    \cup { JDict(<< [key |-> k, value |-> v] >>) : k \in TreeKeys, v \in values }
    \cup { JDict(<< [key |-> kk[1], value |-> v1], [key |-> kk[2], value |-> v2] >>) :
               kk \in { p \in TreeKeys \X TreeKeys : p[1] # p[2] },
               v1 \in values, v2 \in values }

\* The values tried inside the outer container: a scalar, a dict of at most
\* one item, a list of at most one of these.
InnerDicts ==
    { JDict(<<>>) } \cup { JDict(<< [key |-> k, value |-> JScalar] >>) : k \in TreeKeys }

InnerValues ==
    { JScalar } \cup InnerDicts
    \cup { JList(<<>>) } \cup { JList(<< v >>) : v \in { JScalar } \cup InnerDicts }

TransformInit ==
    /\ \/ data \in DictsOver(InnerValues)
       \/ \E v \in InnerValues : data = JList(<< v >>)
       \/ data = JScalar
    /\ transformLog = <<>>

TransformIdle ==
    /\ data = <<>>
    /\ transformLog = <<>>

\* data = ref_key_transformer(data); left is the argument after the call,
\* which the function assigns nothing to.
RefKeyTransform ==
    /\ Len(transformLog) < MaxTransformCalls
    /\ \E res \in { ref_key_transformer(data) } :
           /\ transformLog' = Append(transformLog,
                                     [arg |-> data, res |-> res, left |-> data])
           /\ data' = res
    /\ UNCHANGED notTree

(***************************************************************************)
(* main.main                                                               *)
(***************************************************************************)
\* The file names tried, without folder and extension.
FileNames == { "shop", "test" }

\* The documents tried in the files: one with types and an operation, one
\* without a components section.
MainDocuments ==
    { GenDocument(TRUE, ReferenceToColor, IntegerSchema),
      [GenDocument(TRUE, ReferenceToColor, IntegerSchema)
           EXCEPT !.hasComponents = FALSE, !.hasSchemas = FALSE, !.schemas = <<>>] }

\* The dicts tried for Settings.Python and Settings.Javascript: empty as the
\* class states them, or filled by the caller before main is called.
SettingsDicts == UNION { [names -> BOOLEAN] : names \in SUBSET FileNames }

\* main is called on a folder of at most two files; argument is "None" for
\* the default settings=None, with which main makes a Settings() of its own.
MainInit ==
    /\ \/ glob = <<>>
       \/ \E n \in FileNames, d \in MainDocuments :
              glob = << [name |-> n, document |-> d] >>
       \/ \E n \in FileNames, d1 \in MainDocuments, d2 \in MainDocuments :
              glob = << [name |-> n, document |-> d1],
                        [name |-> CHOOSE m \in FileNames : m # n, document |-> d2] >>
    /\ \E argument \in { "None", "Settings()" },
          python \in SettingsDicts, javascript \in SettingsDicts :
           settings = [argument |-> argument, Python |-> python,
                       Javascript |-> javascript]
    /\ mainPc = "file"
    /\ fileIdx = 1
    /\ parsed_data = <<>>
    /\ mainLog = <<>>

MainIdle ==
    /\ glob = <<>>
    /\ settings = <<>>
    /\ mainPc = "idle"
    /\ fileIdx = 1
    /\ parsed_data = <<>>
    /\ mainLog = <<>>

\* file_name in settings.X and settings.X[file_name]
IsEnabled(dict, file_name) == file_name \in DOMAIN dict /\ dict[file_name]

\* for file in glob(...): json.load, ref_key_transformer, from_dict
MainLoadFile ==
    /\ mainPc = "file"
    /\ fileIdx <= Len(glob)
    /\ parsed_data' = glob[fileIdx].document
    /\ mainPc' = "python"
    /\ UNCHANGED <<glob, settings, fileIdx, mainLog>>
    /\ UNCHANGED notMain

\* if file_name in settings.Python and settings.Python[file_name]:
\*     generator = P(parsed_data, template, output_folder); generator.generate()
\* P is called with three arguments where Python.__init__ requires data,
\* template, log and output_folder: the call raises TypeError, no generator
\* is made and generate is not called.
MainPython ==
    /\ mainPc = "python"
    /\ IF IsEnabled(settings.Python, glob[fileIdx].name)
       THEN /\ mainLog' = Append(mainLog, [generator |-> "Python",
                                           file |-> glob[fileIdx].name,
                                           outcome |-> "TypeError",
                                           generate_calls |-> 0])
            /\ mainPc' = "raised"
       ELSE /\ mainPc' = "javascript"
            /\ UNCHANGED mainLog
    /\ UNCHANGED <<glob, settings, fileIdx, parsed_data>>
    /\ UNCHANGED notMain

\* if file_name in settings.Javascript and settings.Javascript[file_name]:
\*     generator = JS(parsed_data, template, output_folder); generator.generate()
\* JavaScript.__init__ requires the same four arguments.
MainJavascript ==
    /\ mainPc = "javascript"
    /\ IF IsEnabled(settings.Javascript, glob[fileIdx].name)
       THEN /\ mainLog' = Append(mainLog, [generator |-> "JavaScript",
                                           file |-> glob[fileIdx].name,
                                           outcome |-> "TypeError",
                                           generate_calls |-> 0])
            /\ mainPc' = "raised"
            /\ UNCHANGED fileIdx
       ELSE /\ mainPc' = "file"
            /\ fileIdx' = fileIdx + 1
            /\ UNCHANGED mainLog
    /\ UNCHANGED <<glob, settings, parsed_data>>
    /\ UNCHANGED notMain

\* The loop is over: main returns.
MainReturn ==
    /\ mainPc = "file"
    /\ fileIdx > Len(glob)
    /\ mainPc' = "done"
    /\ UNCHANGED <<glob, settings, fileIdx, parsed_data, mainLog>>
    /\ UNCHANGED notMain

(***************************************************************************)
(* Specifications                                                          *)
(***************************************************************************)
InitSan == SanInit /\ SortIdle /\ MapIdle /\ GenIdle /\ ResolveIdle /\ TransformIdle /\ MainIdle

NextSan ==
    \/ SanitizeStringCall
    \/ SanitizeNameCall

\* Chains of sanitation calls on one string.
SpecSan == InitSan /\ [][NextSan]_vars

InitSort == SortInit /\ SanIdle /\ MapIdle /\ GenIdle /\ ResolveIdle /\ TransformIdle /\ MainIdle

NextSort ==
    \/ SortOuterNext
    \/ VisitProp
    \/ VisitAppend
    \/ SortReturn

\* One call of sort_types on one schema map.
SpecSort == InitSort /\ [][NextSort]_vars

InitSortAgain ==
    SortAgainInit /\ SanIdle /\ MapIdle /\ GenIdle /\ ResolveIdle /\ TransformIdle
        /\ MainIdle

NextSortAgain ==
    \/ SortOuterNext
    \/ VisitProp
    \/ VisitAppend
    \/ SortReturn
    \/ SortAgain

\* sort_types called MaxSortCalls times on one schema map.
SpecSortAgain == InitSortAgain /\ [][NextSortAgain]_vars

InitMap == MapInit /\ SanIdle /\ SortIdle /\ GenIdle /\ ResolveIdle /\ TransformIdle /\ MainIdle

NextMap ==
    \/ TypeGeneratorMap
    \/ ClientGeneratorMap
    \/ JsTypeGeneratorMap
    \/ JsClientGeneratorMap

\* Calls of the four type mappers on one object.
SpecMap == InitMap /\ [][NextMap]_vars

InitGen == GenInit /\ SanIdle /\ SortIdle /\ MapIdle /\ ResolveIdle /\ TransformIdle /\ MainIdle

NextGen ==
    \/ PythonGenerate
    \/ JavaScriptGenerate

\* Generation passes on one parsed document.
SpecGen == InitGen /\ [][NextGen]_vars

InitResolve == ResolveInit /\ SanIdle /\ MapIdle /\ GenIdle /\ TransformIdle /\ MainIdle

NextResolve == DetectReference

\* Calls of the reference resolver on the schemas of one schema map.
SpecResolve == InitResolve /\ [][NextResolve]_vars

InitTransform ==
    TransformInit /\ SanIdle /\ SortIdle /\ MapIdle /\ GenIdle /\ ResolveIdle
        /\ MainIdle

NextTransform == RefKeyTransform

\* Calls of ref_key_transformer on one JSON tree.
SpecTransform == InitTransform /\ [][NextTransform]_vars

InitMain ==
    MainInit /\ SanIdle /\ SortIdle /\ MapIdle /\ GenIdle /\ ResolveIdle
        /\ TransformIdle

NextMain ==
    \/ MainLoadFile
    \/ MainPython
    \/ MainJavascript
    \/ MainReturn

\* One run of main over the files of the input folder.
SpecMain == InitMain /\ [][NextMain]_vars

(***************************************************************************)
(* Claims about the dependency sorter                                      *)
(***************************************************************************)
\* The names the resolver reports for the schema called name, as
\* generate_types calls it (fresh visited set, the schema's own name resident).
Dependencies(name) ==
    LET refs == References(SchemaOf(schemas, name), SortModule, {}, name)
    IN  { refs[k] : k \in 1..Len(refs) }

RECURSIVE DependenciesWithin(_, _)
\* The names reached from name along at most k dependency edges (k >= 1).
DependenciesWithin(name, k) ==
    IF ~HasSchema(schemas, name) THEN {}
    ELSE IF k = 1 THEN Dependencies(name)
    ELSE Dependencies(name) \cup
         UNION { DependenciesWithin(d, k - 1) : d \in Dependencies(name) }

AcyclicDependencies ==
    \A n \in SortNameSet : n \notin DependenciesWithin(n, Len(SortNames))

AppearsBefore(d, t) ==
    \E i, j \in 1..Len(sorted_types) :
        i < j /\ sorted_types[i] = d /\ sorted_types[j] = t

\* C1: for every acyclic dependency graph (dependencies as the resolver
\* reports them: direct references, references inside allOf, references in
\* array items), the order sort_types returns has every dependency D of every
\* type T before T.
SortRespectsDependencies ==
    (sortPc = "done" /\ AcyclicDependencies) =>
        \A t \in SortNameSet : \A d \in Dependencies(t) : AppearsBefore(d, t)

\* The names a schema's walked properties reference directly ("$ref" in prop).
DirectRefs(name) ==
    LET props == WalkedProperties(SchemaOf(schemas, name))
    IN  { LastSegment(props[k].ref, "/") :
              k \in { j \in 1..Len(props) : "$ref" \in props[j].keys } }

RECURSIVE PropertyTotal(_, _)
PropertyTotal(doc, i) ==
    IF i > Len(doc) THEN 0
    ELSE Len(doc[i].schema.properties) + PropertyTotal(doc, i + 1)

\* The statements one call of sort_types can execute when no name is entered
\* twice: one outer iteration and one append per schema, one loop iteration
\* per property, and the return.
SortStepBound == 2 * Len(schemas) + PropertyTotal(schemas, 1) + 1

\* C2: sort_types terminates on every schema map, cyclic ones included: visit
\* passes its guard at most once per name, the call runs a bounded number of
\* statements, and it never stops before it returns or raises.
SortTerminates ==
    /\ \A n \in SortTargets : entries[n] <= 1
    /\ sortSteps <= SortStepBound
    /\ Len(stack) <= Cardinality(visited)
    /\ (sortPc = "run" => ENABLED NextSort)

\* A finished sort of a map whose three schemas form one reference cycle.
SortedThreeCycle ==
    /\ sortPc = "done"
    /\ \E a, b, c \in SortNameSet :
         /\ a # b /\ b # c /\ a # c
         /\ b \in DirectRefs(a) /\ c \in DirectRefs(b) /\ a \in DirectRefs(c)
    /\ \A n \in SortNameSet : entries[n] = 1

\* The object schema called name has a property that refers to target.
RefersInProperty(name, target) ==
    LET schema == SchemaOf(schemas, name)
    IN  /\ "type" \in schema.keys
        /\ schema.type = "object"
        /\ "properties" \in schema.keys
        /\ \E k \in 1..Len(schema.properties) :
               /\ "$ref" \in schema.properties[k].keys
               /\ LastSegment(schema.properties[k].ref, "/") = target

\* Two distinct types of the map that refer to each other in a property,
\* the first of them reached by visit before the second.
CyclicPairReachedInOrder(first, partner) ==
    /\ first # partner
    /\ HasSchema(schemas, first) /\ HasSchema(schemas, partner)
    /\ RefersInProperty(first, partner)
    /\ RefersInProperty(partner, first)
    /\ \E i, j \in 1..Len(reached) :
           i < j /\ reached[i] = first /\ reached[j] = partner

AllReferencesExist ==
    \A i \in 1..Len(schemas) :
        \A target \in SortTargets :
            RefersInProperty(schemas[i].name, target) => HasSchema(schemas, target)

\* The list holds every name of the schema map exactly once.
IsPermutationOfNames(list) ==
    /\ Len(list) = Len(schemas)
    /\ \A i \in 1..Len(schemas) :
           \E k \in 1..Len(list) : list[k] = schemas[i].name

NamesReferredTo(schema) ==
    IF "properties" \notin schema.keys THEN {}
    ELSE UNION {
             LET prop == schema.properties[p]
             IN  (IF "$ref" \in prop.keys THEN { LastSegment(prop.ref, "/") } ELSE {})
                 \cup { LastSegment(prop.allOf[b].ref, "/") :
                            b \in { c \in 1..Len(prop.allOf) :
                                        "$ref" \in prop.allOf[c].keys } }
                 \cup (IF "$ref" \in prop.items.keys
                       THEN { LastSegment(prop.items.ref, "/") } ELSE {})
             : p \in 1..Len(schema.properties) }

\* C20: for a schema with resident type R, the reference list of the
\* resolver holds exactly the distinct names referred to directly by a
\* property, by a branch of a property's allOf, or by the items of an array
\* property, each name once, and never R.
ReferenceListExact ==
    \A i \in 1..Len(resLog) :
        LET call == resLog[i]
        IN  /\ call.exc = "none"
            /\ { call.references[k] : k \in 1..Len(call.references) }
                   = NamesReferredTo(SchemaOf(schemas, call.type)) \ { call.type }
            /\ \A j, k \in 1..Len(call.references) :
                   call.references[j] = call.references[k] => j = k

\* The types that refer to type_name and that type_name refers to.
CyclicPartners(type_name) ==
    { other \in NamesReferredTo(SchemaOf(schemas, type_name)) \ { type_name } :
          /\ HasSchema(schemas, other)
          /\ type_name \in NamesReferredTo(SchemaOf(schemas, other)) }

\* C21: when two distinct types refer to each other, resolving either of
\* them does not raise and reports the other one.
CyclicPairReported ==
    \A i \in 1..Len(resLog) :
        LET call == resLog[i]
        IN  \A other \in CyclicPartners(call.type) :
                /\ call.exc = "none"
                /\ \E k \in 1..Len(call.references) : call.references[k] = other

(***************************************************************************)
(* Claims about the type mappers                                           *)
(***************************************************************************)
PythonMappers == { "Python.TypeGenerator", "Python.ClientGenerator" }

\* C3: calling the type mapper of the type emitter or of the method emitter
\* twice in a row on the same node with the same enum registry returns the
\* identical type expression both times, nodes with nullable set included.
MapperRepeatable ==
    \A i \in 1..(Len(mapLog) - 1) :
        (/\ mapLog[i].mapper \in PythonMappers
         /\ mapLog[i + 1].mapper = mapLog[i].mapper
         /\ mapLog[i].exc = "none")
            => (mapLog[i + 1].exc = "none" /\ mapLog[i + 1].out = mapLog[i].out)

\* The plain string type of the language a mapper emits.
PlainString(mapper) == IF mapper \in PythonMappers THEN S_str ELSE S_string

\* A reference, not nullable, to a schema of the enum registry.
IsEnumReference(field) ==
    /\ field.ref # <<>>
    /\ ~field.nullable
    /\ InEnums(mapEnums, RefName(field.ref))

\* C5: a reference whose target schema is in the enum registry is mapped to
\* the plain string type of the target language and never to a named type,
\* as a property and as the items of an array, by every mapper.
EnumReferenceIsString ==
    \A i \in 1..Len(mapLog) :
        LET call == mapLog[i]
        IN  /\ (call.exc = "none" /\ IsEnumReference(call.arg))
                => call.out = PlainString(call.mapper)
            /\ (/\ call.exc = "none"
                /\ call.arg.ref = <<>> /\ ~call.arg.nullable
                /\ call.arg.type = "array" /\ call.arg.items # <<>>
                /\ IsEnumReference(call.arg.items[1]))
                => ~Contains(call.out, RefName(call.arg.items[1].ref))

\* The call of one of the two Python mappers, by its name in mapLog.
PythonMap(mapper, field, enums) ==
    IF mapper = "Python.TypeGenerator"
    THEN TypeGenerator_get_field_type_from_property(field, enums)
    ELSE ClientGenerator_get_field_type_from_property(field, enums)

\* The objects a mapper is handed by its emitter: the type emitter maps the
\* properties of a schema, the method emitter maps schemas and properties;
\* an array has items.
HandedTo(mapper, field) ==
    /\ mapper = "Python.TypeGenerator" => field.cls = "Property"
    /\ (field.type = "array" /\ field.ref = <<>> /\ field.enum = <<>>)
           => field.items # <<>>

PrimitiveTypes == { "integer", "number", "boolean", "string" }

\* The first case that matches an object, in the fixed order nullable, enum,
\* ref, array, object, primitive type, allOf, any.
DecidingCase(field) ==
    IF field.nullable THEN "nullable"
    ELSE IF field.enum # <<>> THEN "enum"
    ELSE IF field.ref # <<>> THEN "ref"
    ELSE IF field.type = "array" THEN "array"
    ELSE IF field.type = "object" THEN "object"
    ELSE IF field.type \in PrimitiveTypes THEN "primitive"
    ELSE IF field.allOf # <<>> THEN "allOf"
    ELSE "any"

PrimitiveName(type) ==
    CASE type = "integer" -> S_int
      [] type = "number" -> S_float
      [] type = "boolean" -> S_bool
      [] type = "string" -> S_str

\* The type expression is one the case gives.
GivenByCase(case, call) ==
    CASE case = "nullable" -> StartsWithAt(call.out, 1, S_Optional)
      [] case = "enum" -> call.out = S_str
      [] case = "ref" -> call.out \in { S_str, RefName(call.arg.ref) }
      [] case = "array" -> StartsWithAt(call.out, 1, S_List)
      [] case = "object" -> call.out = S_Dict
      [] case = "primitive" -> call.out = PrimitiveName(call.arg.type)
      [] case = "allOf" ->
             \/ StartsWithAt(call.out, 1, S_Union)
             \/ \E b \in 1..Len(call.arg.allOf) :
                    call.out = PythonMap(call.mapper, call.arg.allOf[b], mapEnums).out
      [] case = "any" -> call.out = S_Any

\* C14: when an object has several of nullable, enum, ref, type and allOf
\* populated, the result of the mapper is decided by the first matching case
\* in the order nullable, enum, ref, array, object without declared
\* properties, primitive type, allOf, any, in the mapper of the type emitter
\* and in the mapper of the method emitter.
FirstMatchingCaseDecides ==
    \A i \in 1..Len(mapLog) :
        (mapLog[i].mapper \in PythonMappers
         /\ HandedTo(mapLog[i].mapper, mapLog[i].arg))
            => /\ mapLog[i].exc = "none"
               /\ GivenByCase(DecidingCase(mapLog[i].arg), mapLog[i])

S_OptionalStr == S_Optional \o S_str \o S_Close

RECURSIVE Distinct(_)
\* A list without its repeated elements, first occurrences kept in order.
Distinct(list) ==
    IF list = <<>> THEN <<>>
    ELSE LET front == Distinct(SubSeq(list, 1, Len(list) - 1))
             last == list[Len(list)]
         IN  IF \E k \in 1..Len(front) : front[k] = last THEN front
             ELSE Append(front, last)

\* The union of the members: the member itself when there is one.
UnionOf(members) ==
    IF Len(members) = 1 THEN members[1]
    ELSE S_Union \o JoinWith(S_CommaSpace, members) \o S_Close

\* C16: for an object matched by the allOf case, the mapper returns the union
\* of the mapped types of the branches in branch order, types rendered alike
\* taken once; when one distinct member remains it returns that member's
\* type and no union of one.
AllOfUnionWithoutDuplicates ==
    \A i \in 1..Len(mapLog) :
        LET call == mapLog[i]
            mapped == [b \in 1..Len(call.arg.allOf) |->
                          PythonMap(call.mapper, call.arg.allOf[b], mapEnums)]
        IN  (/\ call.mapper \in PythonMappers
             /\ HandedTo(call.mapper, call.arg)
             /\ DecidingCase(call.arg) = "allOf"
             /\ \A b \in 1..Len(mapped) : mapped[b].exc = "none")
                => /\ call.exc = "none"
                   /\ call.out =
                          UnionOf(Distinct([b \in 1..Len(mapped) |-> mapped[b].out]))

\* The object has no type, no ref, no enum and no allOf.
NoTypeInformation(field) ==
    /\ field.type = "None"
    /\ field.ref = <<>>
    /\ field.enum = <<>>
    /\ field.allOf = <<>>

\* C17: an object with no usable type information (no type, no ref, no enum,
\* no allOf) is mapped to Any without raising, by the mapper of the type
\* emitter and by the mapper of method parameters and return types.
NoTypeInformationIsAny ==
    \A i \in 1..Len(mapLog) :
        (/\ mapLog[i].mapper \in PythonMappers
         /\ HandedTo(mapLog[i].mapper, mapLog[i].arg)
         /\ ~mapLog[i].arg.nullable
         /\ NoTypeInformation(mapLog[i].arg))
            => (mapLog[i].exc = "none" /\ mapLog[i].out = S_Any)

\* The mapper of the other Python emitter.
OtherEmitter(mapper) ==
    IF mapper = "Python.TypeGenerator" THEN "Python.ClientGenerator"
    ELSE "Python.TypeGenerator"

\* C18: the type emitter and the method emitter stay consistent: with the
\* same enum registry, the mappers of both return the same type expression
\* for every object.
EmittersMapAlike ==
    \A i \in 1..Len(mapLog) :
        LET call == mapLog[i]
            other == PythonMap(OtherEmitter(call.mapper), call.arg, mapEnums)
        IN  (/\ call.mapper \in PythonMappers
             /\ HandedTo("Python.TypeGenerator", call.arg))
                => (other.exc = call.exc /\ other.out = call.out)

(***************************************************************************)
(* Claims about the generation pass                                        *)
(***************************************************************************)
PythonPasses == { k \in 1..Len(genLog) : genLog[k].generator = "Python" }

\* The one operation of a document of GenInit.
OperationOf(doc) == doc.paths[1].methods[1].operation

\* The response an operation's return type is taken from, as a sequence of
\* at most one: the one under "200", else the one under "default".
SelectedResponse(operation) ==
    LET under(status) ==
            { k \in 1..Len(operation.responses) :
                  operation.responses[k].status = status }
    IN  IF ~operation.hasResponses THEN <<>>
        ELSE IF under("200") # {}
        THEN << operation.responses[CHOOSE k \in under("200") : TRUE] >>
        ELSE IF under("default") # {}
        THEN << operation.responses[CHOOSE k \in under("default") : TRUE] >>
        ELSE <<>>

\* The schema of the application/json content of the selected response of
\* the one operation of a document, as a sequence of at most one.
ResponseSchemaOf(doc) ==
    LET selected == SelectedResponse(OperationOf(doc))
        json == IF selected = <<>> THEN {}
                ELSE { k \in 1..Len(selected[1].content) :
                           selected[1].content[k].media = "application/json" }
    IN  IF json = {} THEN <<>>
        ELSE selected[1].content[CHOOSE k \in json : TRUE].schema

\* The property Widget.color of a document.
ColorPropertyOf(doc) ==
    LET w == CHOOSE k \in 1..Len(doc.schemas) : doc.schemas[k].name = Widget
    IN  doc.schemas[w].properties[2].field

\* C4: a generation pass leaves the parsed document unchanged: when
\* Python.generate or JavaScript.generate has returned, every Schema and
\* Property object has the field values it had before the pass, the nullable
\* flag included.
PassLeavesDocumentUnchanged ==
    \A k \in 1..Len(genLog) : genLog[k].left = genLog[k].parsed

ReferenceToWidget == Node("Property", "None", RefTo(Widget), <<>>, FALSE, <<>>, <<>>)

ArrayOfWidget ==
    Node("Schema", "array", <<>>, <<>>, FALSE, <<ReferenceToWidget>>, <<>>)

BareWidget == Node("Schema", "None", RefTo(Widget), <<>>, FALSE, <<>>, <<>>)

\* C6: when the selected response schema is an array whose items refer to
\* the object type Widget, generate_method records is_list = true and the
\* decode target Widget; when it is a bare reference to Widget, it records
\* is_list = false and the decode target Widget.
WidgetResponseDecoded ==
    \A k \in PythonPasses :
        \A j \in 1..Len(genLog[k].methods) :
            LET m == genLog[k].methods[j]
                schema == ResponseSchemaOf(genLog[k].parsed)
            IN  /\ schema = <<ArrayOfWidget>>
                       => (m.is_list /\ m.response_model = Widget)
                /\ schema = <<BareWidget>>
                       => (~m.is_list /\ m.response_model = Widget)

\* A method was generated for a response that is an array of Widget.
ArrayOfWidgetGenerated ==
    \E k \in PythonPasses :
        /\ ResponseSchemaOf(genLog[k].parsed) = <<ArrayOfWidget>>
        /\ Len(genLog[k].methods) = 1
        /\ genLog[k].methods[1].is_list

\* The mapped type is List[...] as a whole.
IsSequenceWrapper(type) ==
    /\ Len(type) > Len(S_List)
    /\ StartsWithAt(type, 1, S_List)
    /\ type[Len(type)] = "]"

ElementOfWrapper(type) == SubSeq(type, Len(S_List) + 1, Len(type) - 1)

\* C7: for every mapped response type, is_list is true exactly when the
\* mapped type is a sequence wrapper at its top level, and the decode target
\* is then the element type; otherwise is_list is false and the decode target
\* is the mapped type itself. Nested lists, optional lists and map types are
\* among the mapped types.
ListFlagFollowsTopLevelWrapper ==
    \A k \in PythonPasses :
        \A j \in 1..Len(genLog[k].methods) :
            LET m == genLog[k].methods[j]
            IN  IF IsSequenceWrapper(m.output_type)
                THEN m.is_list /\ m.response_model = ElementOfWrapper(m.output_type)
                ELSE ~m.is_list /\ m.response_model = m.output_type

\* The document of the end-to-end scenario: the enum schema Color, the
\* object schema Widget with id (integer) and color (reference to Color),
\* GET /widgets/{id} with a 200 response that is a JSON array of Widget.
EndToEndDocument ==
    GenDocument(TRUE,
                Node("Property", "None", RefTo(Color), <<>>, FALSE, <<>>, <<>>),
                ArrayOfWidget)

S_GetWidgetsId == << "g", "e", "t", "_", "w", "i", "d", "g", "e", "t", "s", "_", "i", "d" >>
S_ListOfWidget == << "L", "i", "s", "t", "[", "W", "i", "d", "g", "e", "t", "]" >>

\* C8: on the end-to-end document the pass emits the type Widget with the
\* fields id: int and color: str (no reference to Color), and for
\* GET /widgets/{id} a method that returns List[Widget] with is_list = true.
EndToEndScenario ==
    \A k \in PythonPasses :
        genLog[k].parsed = EndToEndDocument
            => /\ genLog[k].outcome = "written"
               /\ \E d \in 1..Len(genLog[k].type_definitions) :
                      genLog[k].type_definitions[d] =
                          [kind |-> "class", name |-> Widget,
                           fields |-> << [name |-> S_id, type |-> S_int],
                                         [name |-> S_color, type |-> S_str] >>]
               /\ \E j \in 1..Len(genLog[k].methods) :
                      /\ genLog[k].methods[j].name = S_GetWidgetsId
                      /\ genLog[k].methods[j].output_type = S_ListOfWidget
                      /\ genLog[k].methods[j].is_list

\* A Python pass was made on the end-to-end document.
EndToEndGenerated ==
    \E k \in PythonPasses : genLog[k].parsed = EndToEndDocument

\* The object refers to a name that is no key of components.schemas.
IsDangling(field) == field.ref = RefTo(MissingName)

HasDanglingReference(doc) ==
    \/ IsDangling(ColorPropertyOf(doc))
    \/ \E k \in 1..Len(ResponseSchemaOf(doc)) :
           \/ IsDangling(ResponseSchemaOf(doc)[k])
           \/ /\ ResponseSchemaOf(doc)[k].items # <<>>
              /\ IsDangling(ResponseSchemaOf(doc)[k].items[1])

\* C9: a reference whose target is no key of components.schemas ends the
\* emission in a reference error raised while mapping, before anything is
\* rendered or written; it is never mapped to a type name or a fallback type.
DanglingReferenceRaises ==
    \A k \in PythonPasses :
        HasDanglingReference(genLog[k].parsed)
            => /\ genLog[k].outcome \in {"ReferenceError", "KeyError"}
               /\ genLog[k].written = 0

\* The type emitter went through every schema, so the method emitter ran.
TypesEmitted(pass) == Len(pass.type_definitions) = Len(pass.parsed.schemas)

\* C13: the response a method's return type is taken from is the one under
\* "200" if present, else the one under "default"; with neither (also with no
\* responses at all, and when the selected response has no application/json
\* content) the return type is Any and no error is raised.
PreferredResponseSelected ==
    \A k \in PythonPasses :
        TypesEmitted(genLog[k]) =>
            LET schema == ResponseSchemaOf(genLog[k].parsed)
            IN  IF schema = <<>>
                THEN /\ genLog[k].outcome = "written"
                     /\ genLog[k].methods[1].output_type = S_Any
                ELSE ClientGenerator_get_field_type_from_property(
                         schema[1], genLog[k].enums).exc = "none"
                     => /\ genLog[k].outcome = "written"
                        /\ genLog[k].methods[1].output_type =
                               ClientGenerator_get_field_type_from_property(
                                   schema[1], genLog[k].enums).out

\* The names a schema's properties refer to, directly or as array items.
ReferencedNames(schema) ==
    { RefName(schema.properties[p].field.ref) :
          p \in { q \in 1..Len(schema.properties) :
                      schema.properties[q].field.ref # <<>> } }
    \cup
    { RefName(schema.properties[p].field.items[1].ref) :
          p \in { q \in 1..Len(schema.properties) :
                      /\ schema.properties[q].field.items # <<>>
                      /\ schema.properties[q].field.items[1].ref # <<>> } }

\* No schema of the document refers to itself; with Color without
\* properties, the references of the documents tried are then acyclic.
AcyclicReferences(doc) ==
    \A k \in 1..Len(doc.schemas) :
        sanitize_string(doc.schemas[k].name) \notin ReferencedNames(doc.schemas[k])

\* C19: the type-declarations block is in dependency order: for a document
\* with acyclic type references, each named type is declared before every
\* type that refers to it, whatever the order of the schemas in the document.
TypeBlockInDependencyOrder ==
    \A k \in PythonPasses :
        (TypesEmitted(genLog[k]) /\ AcyclicReferences(genLog[k].parsed))
            => \A d, e \in 1..Len(genLog[k].type_definitions) :
                   (/\ genLog[k].type_definitions[e].kind # "empty"
                    /\ genLog[k].type_definitions[e].name
                           \in ReferencedNames(genLog[k].parsed.schemas[d]))
                       => e < d

\* The operations of a document in the order generate_methods meets them.
OperationsIn(doc) ==
    Concat([k \in 1..Len(doc.paths) |->
                [j \in 1..Len(doc.paths[k].methods) |->
                     [method |-> doc.paths[k].methods[j].method,
                      url |-> doc.paths[k].url,
                      operation |-> doc.paths[k].methods[j].operation]]])

\* str.isidentifier, on the characters of the model: a letter or the
\* underscore, then letters, decimal digits and underscores.
IsIdentifier(name) ==
    /\ name # <<>>
    /\ name[1] \in Letters \cup UnicodeLetters \cup {"_"}
    /\ \A k \in 1..Len(name) :
           name[k] \in Letters \cup UnicodeLetters \cup Digits \cup {"_"}

WithoutBraces(path) == Replace(Replace(path, S_Brace, <<>>), S_EndBrace, <<>>)

\* C22: the name of the method generated for (verb, path) is the lower-cased
\* verb followed by the sanitized path without its braces, the sanitation
\* rule leaves the whole name as it is, and the name is a valid identifier.
MethodNameIsSanitizedIdentifier ==
    \A i \in 1..Len(genLog) :
        genLog[i].outcome = "written" =>
            \A k \in 1..Len(genLog[i].methods) :
                LET op == OperationsIn(genLog[i].parsed)[k]
                    name == genLog[i].methods[k].name
                IN  /\ name = op.method \o sanitize_string(WithoutBraces(op.url))
                    /\ sanitize_string(name) = name
                    /\ IsIdentifier(name)

S_ColonSpace == << ":", " " >>

\* The parameter "name: type" of a def line, with the type the method
\* emitter's mapper gives the schema of the parameter.
AnnotatedParameter(parameter, enums) ==
    parameter.name \o S_ColonSpace
        \o ClientGenerator_get_field_type_from_property(parameter.schema[1], enums).out

\* C23: the signature of a generated Python method has one parameter per
\* declared parameter of the operation, in declaration order, each annotated
\* with the mapped type of its schema, and then **kwargs, which is there also
\* when the operation declares no parameter.
SignatureAnnotatesParameters ==
    \A i \in PythonPasses :
        genLog[i].outcome = "written" =>
            \A k \in 1..Len(genLog[i].methods) :
                LET op == OperationsIn(genLog[i].parsed)[k]
                    declared == op.operation.parameters
                    method == genLog[i].methods[k]
                IN  /\ Len(method.parameters) = Len(declared)
                    /\ \A j \in 1..Len(declared) :
                           method.parameters[j] =
                               AnnotatedParameter(declared[j], genLog[i].enums)
                    /\ method.keywords = S_Kwargs

\* C29: two distinct operations of one document, of different paths or of
\* different verbs, never get the same method name.
MethodNamesDistinct ==
    \A i \in PythonPasses :
        genLog[i].outcome = "written" =>
            \A j, k \in 1..Len(genLog[i].methods) :
                genLog[i].methods[j].name = genLog[i].methods[k].name => j = k

\* The document declares a type: a schema that is no enum.
HasTypes(doc) ==
    /\ doc.hasComponents
    /\ doc.hasSchemas
    /\ \E k \in 1..Len(doc.schemas) : doc.schemas[k].enum = <<>>

\* C24: Python.generate renders and writes the client once when the document
\* has types and operations; when it has no types (no components section or
\* enum schemas only among the cases) or no operations, it returns without
\* rendering, without writing and without raising.
SkipsDocumentWithoutTypesOrMethods ==
    \A i \in PythonPasses :
        IF HasTypes(genLog[i].parsed) /\ OperationsIn(genLog[i].parsed) # <<>>
        THEN genLog[i].outcome = "written" /\ genLog[i].written = 1
        ELSE genLog[i].outcome \in { "no types", "no client code" }
             /\ genLog[i].written = 0

\* The object is nothing but a reference, and the schema it names is a
\* schema of the document that declares no enum values.
RefersToNonEnum(doc, field) ==
    /\ field.ref # <<>>
    /\ ~field.nullable
    /\ field.enum = <<>>
    /\ \E k \in 1..Len(doc.schemas) :
           /\ doc.schemas[k].name = LastSegment(field.ref, "/")
           /\ doc.schemas[k].enum = <<>>

\* C30: a reference to a schema that declares no enum values is mapped to
\* the sanitized name of that schema, in the fields of the types and in the
\* return type of the methods, also when another schema whose name gives the
\* same identifier is an enum.
NonEnumReferenceKeepsName ==
    \A i \in PythonPasses :
        genLog[i].outcome = "written" =>
            LET doc == genLog[i].parsed
            IN  /\ \A k \in 1..Len(doc.schemas) :
                       \A j \in 1..Len(doc.schemas[k].properties) :
                           RefersToNonEnum(doc, doc.schemas[k].properties[j].field)
                               => genLog[i].type_definitions[k].fields[j].type =
                                      RefName(doc.schemas[k].properties[j].field.ref)
                /\ \A r \in 1..Len(ResponseSchemaOf(doc)) :
                       RefersToNonEnum(doc, ResponseSchemaOf(doc)[r])
                           => genLog[i].methods[1].output_type =
                                  RefName(ResponseSchemaOf(doc)[r].ref)

(***************************************************************************)
(* Claims about the key transformer                                        *)
(***************************************************************************)
RECURSIVE NoReservedKey(_)
\* No dict of the tree, at any depth, has the key "$ref" or the key "in".
NoReservedKey(tree) ==
    IF tree.kind = "dict"
    THEN \A i \in 1..Len(tree.items) :
             /\ tree.items[i].key \notin { "$ref", "in" }
             /\ NoReservedKey(tree.items[i].value)
    ELSE \A i \in 1..Len(tree.items) : NoReservedKey(tree.items[i])

RECURSIVE RenamedFrom(_, _)
\* out is tree with every item kept in its place, its key renamed if it is
\* reserved and its value renamed in the same way.
RenamedFrom(tree, out) ==
    /\ out.kind = tree.kind
    /\ Len(out.items) = Len(tree.items)
    /\ \A i \in 1..Len(tree.items) :
           IF tree.kind = "dict"
           THEN /\ out.items[i].key = RenameKey(tree.items[i].key)
                /\ RenamedFrom(tree.items[i].value, out.items[i].value)
           ELSE RenamedFrom(tree.items[i], out.items[i])

\* C25: after ref_key_transformer no dict at any depth has the key "$ref" or
\* "in"; each is renamed to "ref" and "in_" with its transformed value, every
\* other key and value is kept, no item is lost to a renamed key that meets a
\* key already there, and the argument is left as it was.
ReservedKeysRenamed ==
    \A i \in 1..Len(transformLog) :
        /\ NoReservedKey(transformLog[i].res)
        /\ RenamedFrom(transformLog[i].arg, transformLog[i].res)
        /\ transformLog[i].left = transformLog[i].arg

(***************************************************************************)
(* Claims about main                                                       *)
(***************************************************************************)
\* The positions of mainLog at which the Python generator was made for a
\* file and its generate was called once.
PythonRuns(file_name) ==
    { k \in 1..Len(mainLog) :
          /\ mainLog[k].generator = "Python"
          /\ mainLog[k].file = file_name
          /\ mainLog[k].generate_calls = 1 }

\* C26: when main has run with its default arguments over a folder that
\* holds documents, the Python generator was made and its generate called
\* exactly once for each document, the documents one after the other in the
\* order of the files.
MainGeneratesEachDocument ==
    (mainPc \in { "done", "raised" } /\ settings.argument = "None")
        => /\ \A i \in 1..Len(glob) : Cardinality(PythonRuns(glob[i].name)) = 1
           /\ \A i, j \in 1..Len(glob) :
                  i < j => \A a \in PythonRuns(glob[i].name),
                              b \in PythonRuns(glob[j].name) : a < b

(***************************************************************************)
(* Claims about sanitation                                                 *)
(***************************************************************************)
\* C10: sanitation is idempotent: sanitize_string(sanitize_string(x)) equals
\* sanitize_string(x), and likewise for the legacy sanitize_name: a second
\* call of the same sanitizer on the result of the first returns it unchanged.
SanitationIdempotent ==
    \A i \in 1..(Len(sanLog) - 1) :
        (sanLog[i + 1].fn = sanLog[i].fn /\ sanLog[i + 1].arg = sanLog[i].res)
            => sanLog[i + 1].res = sanLog[i].res

\* sanitize_string was applied twice to a string that starts with a digit and
\* holds a character it replaces, and so was changed by the first call.
SanitizedTwice ==
    /\ Len(sanLog) = 2
    /\ sanLog[1].fn = "sanitize_string" /\ sanLog[2].fn = "sanitize_string"
    /\ Len(sanLog[1].arg) = MaxLen
    /\ IsDigit(sanLog[1].arg[1])
    /\ \E k \in 1..Len(sanLog[1].arg) : ~IsWordChar(sanLog[1].arg[k])
    /\ sanLog[1].res # sanLog[1].arg

\* The characters the sanitation rule keeps: [A-Za-z0-9_].
IsIdentifierChar(c) == c \in Letters \cup Digits \cup {"_"}

\* The sanitation rule: every character outside [A-Za-z0-9_] becomes an
\* underscore, then one underscore is prepended if the result starts with a
\* digit.
SanitationRule(value) ==
    LET replaced == [i \in 1..Len(value) |->
                        IF IsIdentifierChar(value[i]) THEN value[i] ELSE "_"]
    IN  IF replaced # <<>> /\ IsDigit(replaced[1]) THEN <<"_">> \o replaced
        ELSE replaced

\* C11: for every input string sanitize_string returns what the sanitation
\* rule gives: each character outside [A-Za-z0-9_] replaced by an underscore
\* and one underscore prepended before a leading digit, so that the result
\* holds only [A-Za-z0-9_] and does not start with a digit.
SanitizeStringFollowsRule ==
    \A i \in 1..Len(sanLog) :
        sanLog[i].fn = "sanitize_string"
            => /\ sanLog[i].res = SanitationRule(sanLog[i].arg)
               /\ \A k \in 1..Len(sanLog[i].res) : IsIdentifierChar(sanLog[i].res[k])
               /\ (sanLog[i].res # <<>> => ~IsDigit(sanLog[i].res[1]))

\* C12: every identifier derived from document text is produced by the same
\* sanitation rule: the sanitizers of the repository return the same result
\* for the same input.
SanitizersAgree ==
    \A i \in 1..Len(sanLog) :
        sanitize_string(sanLog[i].arg) = sanitize_name(sanLog[i].arg)

====
